---- MODULE Spec2Model ----
(***************************************************************************)
(* Model of ForecastHOL/generate_hvac_data.py, the synthetic HVAC demand   *)
(* generator, and of ForecastHOL/forecast_comparison_dashboard.py, the     *)
(* report (second part of the module).                                     *)
(*                                                                         *)
(* Numbers.  Python floats are modelled in fixed point, in thousandths     *)
(* (1.0 is 1000); every product of two fixed-point numbers is truncated    *)
(* toward zero.  Money is kept in cents.  math.sin is a 52 entry table.    *)
(* int() truncates toward zero, as in Python.                              *)
(*                                                                         *)
(* Randomness.  numpy's generator is a deterministic function of its       *)
(* state; its bit stream is not reproduced.  The model's generator is a    *)
(* 16 bit linear congruential generator; `stream' selects one of several   *)
(* draw sequences for the seed, so that a run is checked against several   *)
(* sequences of draws.  A standard normal draw is read from a table of 16  *)
(* quantiles that includes far tails, so that the code's handling of the   *)
(* extreme cases (negative noise factor, zero demand) is exercised.        *)
(***************************************************************************)
EXTENDS Integers, Sequences, FiniteSets, TLC

VARIABLES
    pc,              \* position of the generator: "start", "week", "region",
                     \* "product", "segment", "done" ("idle": not running)
    rng,             \* state of the global numpy random generator
    stream,          \* which draw sequence the generator follows
    week_num,        \* loop variable of line 180
    week_date,       \* START_DATE + timedelta(weeks=week_num), line 181
    ri,              \* index into REGIONS of the region loop (line 183)
    pi,              \* index into PRODUCTS of the product loop (line 189)
    si,              \* index into SEGMENTS of the segment loop (line 224)
    avg_temp,        \* covariates of the current (week, region), thousandths
    economic_index,
    housing_starts,
    total_demand,    \* of the current (week, region, product)
    records,         \* the list of rows; kept for weeks below MaxRecWeeks
                     \* and the first MaxRecRegions regions
    n_records,       \* len(records) of the program
    n_cells,         \* number of candidate cells evaluated so far
    last,            \* what the last evaluation of a cell did
    digest,          \* running checksum of the rows appended so far: it
                     \* stands for the rows that `records' does not keep
    fn,              \* the function last applied on its own, with its
                     \* arguments and result (specification FnSpec)
    how,             \* how the running invocation of main() was started:
                     \* "first", "rerun" (a new process) or "reinvoke"
                     \* (called again in the same process)
    csv,             \* thisisclayco_hvac_demand_data.csv, lines 280-281
    forecast_tbl,    \* the warehouse view ALL_METHODS_COMBINED
    historical_tbl,  \* the warehouse table HVAC_DEMAND_RAW
    now,             \* the clock of the report server, in seconds
    cache,           \* the entries of st.cache_data, shared by all viewers
    session,         \* per viewer: position of the script run, the widget
                     \* state and the data sets the run has loaded
    view             \* per viewer: what the last script run rendered

vars == << pc, rng, stream, week_num, week_date, ri, pi, si, avg_temp, economic_index,
           housing_starts, total_demand, records, n_records, n_cells, last, digest,
           fn, how, csv, forecast_tbl, historical_tbl, now, cache, session, view >>

genvars == << pc, rng, stream, week_num, week_date, ri, pi, si, avg_temp, economic_index,
              housing_starts, total_demand, records, n_records, n_cells, last,
              digest >>

runvars == << how, csv >>

dashvars == << forecast_tbl, historical_tbl, now, cache, session, view >>

----------------------------------------------------------------------------
(* Bounds of the model *)

\* number of draw sequences a run is checked against
Streams == 2

\* rows are kept in `records' for the weeks below this bound
MaxRecWeeks == 1

\* and, of these weeks, for this many regions
MaxRecRegions == 3

----------------------------------------------------------------------------
(* Configuration, lines 10-73 *)

SEED == 42

WEEKS == 156

START_YEAR == 2022
START_MONTH == 1
START_DAY == 3

REGIONS == << "CO_Rocky_Mountains", "UT_High_Elevation", "WY_Mountain",
              "MT_Northern", "ID_Mountain", "CA_NV_Tahoe", "OR_WA_Pacific_NW",
              "VT_ME_NH_New_England" >>

PRODUCTS == << "Cold_Climate_Heat_Pump", "Variable_Gas_Furnace",
               "Standard_Air_Handler", "High_Altitude_Air_Handler",
               "Replacement_Parts", "Maintenance_Contract" >>

SEGMENTS == << "B2B", "B2G", "B2C" >>

\* dollars
PRODUCT_PRICES ==
    [ Cold_Climate_Heat_Pump |-> 8500, Variable_Gas_Furnace |-> 4500,
      Standard_Air_Handler |-> 2800, High_Altitude_Air_Handler |-> 3500,
      Replacement_Parts |-> 350, Maintenance_Contract |-> 1200 ]

\* thousandths
REGION_FACTORS ==
    [ CO_Rocky_Mountains |-> 1500, UT_High_Elevation |-> 1200,
      WY_Mountain |-> 600, MT_Northern |-> 700, ID_Mountain |-> 800,
      CA_NV_Tahoe |-> 1300, OR_WA_Pacific_NW |-> 1400,
      VT_ME_NH_New_England |-> 1100 ]

\* mutant of SEGMENT_MIX: one fraction mistyped (0.20 for 0.30)
SEGMENT_MIX_mistyped ==
    [ Cold_Climate_Heat_Pump |-> [B2B |-> 25, B2G |-> 15, B2C |-> 60],
      Variable_Gas_Furnace |-> [B2B |-> 30, B2G |-> 20, B2C |-> 50],
      Standard_Air_Handler |-> [B2B |-> 35, B2G |-> 25, B2C |-> 40],
      High_Altitude_Air_Handler |-> [B2B |-> 40, B2G |-> 30, B2C |-> 30],
      Replacement_Parts |-> [B2B |-> 30, B2G |-> 20, B2C |-> 50],
      Maintenance_Contract |-> [B2B |-> 45, B2G |-> 20, B2C |-> 25] ]

\* hundredths
SEGMENT_MIX ==
    [ Cold_Climate_Heat_Pump |-> [B2B |-> 25, B2G |-> 15, B2C |-> 60],
      Variable_Gas_Furnace |-> [B2B |-> 30, B2G |-> 20, B2C |-> 50],
      Standard_Air_Handler |-> [B2B |-> 35, B2G |-> 25, B2C |-> 40],
      High_Altitude_Air_Handler |-> [B2B |-> 40, B2G |-> 30, B2C |-> 30],
      Replacement_Parts |-> [B2B |-> 30, B2G |-> 20, B2C |-> 50],
      Maintenance_Contract |-> [B2B |-> 45, B2G |-> 30, B2C |-> 25] ]

----------------------------------------------------------------------------
(* Arithmetic *)

\* The operators below bind their arguments once (x \in {a}), so that an
\* argument that is itself a long expression is evaluated a single time.

Abs(x) == IF x < 0 THEN -x ELSE x

\* the place of x in the sequence seq
IndexIn(seq, x) == CHOOSE i \in 1..Len(seq) : seq[i] = x

Max(a, b) == CHOOSE m \in { IF x >= y THEN x ELSE y : x \in {a}, y \in {b} } : TRUE

Min(a, b) == CHOOSE m \in { IF x <= y THEN x ELSE y : x \in {a}, y \in {b} } : TRUE

\* Python's int(a / b) for b > 0: the quotient truncated toward zero
TruncDiv(a, b) ==
    CHOOSE q \in { IF x >= 0 THEN x \div b ELSE -((-x) \div b) : x \in {a} } : TRUE

\* the product of two fixed-point numbers, truncated toward zero; split so
\* that no intermediate value leaves 32 bits
FxMul(a, b) ==
    CHOOSE m \in
        { IF (x < 0) = (y < 0)
          THEN ((Abs(x) \div 1000) * Abs(y)) + (((Abs(x) % 1000) * Abs(y)) \div 1000)
          ELSE -(((Abs(x) \div 1000) * Abs(y)) + (((Abs(x) % 1000) * Abs(y)) \div 1000))
          : x \in {a}, y \in {b} } : TRUE

\* round(x, 1) of a number in thousandths, in tenths; ties to even
Round1(x) ==
    LET q == Abs(x) \div 100
        r == Abs(x) % 100
        n == IF r > 50 \/ (r = 50 /\ q % 2 = 1) THEN q + 1 ELSE q
    IN  IF x < 0 THEN -n ELSE n

\* sin(2*pi*w/52) in thousandths, w = 0..51
SIN52 == << 0, 121, 239, 355, 465, 568, 663, 749, 823, 885, 935, 971, 993,
            1000, 993, 971, 935, 885, 823, 749, 663, 568, 465, 355, 239, 121,
            0, -121, -239, -355, -465, -568, -663, -749, -823, -885, -935,
            -971, -993, -1000, -993, -971, -935, -885, -823, -749, -663, -568,
            -465, -355, -239, -121 >>

\* np.sin((week_num / 52) * 2 * np.pi)
SinWeek(week) == SIN52[(week % 52) + 1]

\* np.sin((week_num / 52) * 2 * np.pi - np.pi/2): a quarter period behind
SinWeekShifted(week) == SIN52[((week + 39) % 52) + 1]

----------------------------------------------------------------------------
(* Calendar: datetime + timedelta(weeks = n), .year, .month, .day,         *)
(* .isocalendar()[1], .strftime('%Y-%m-%d')                                *)

IsLeap(y) == (y % 4 = 0 /\ y % 100 # 0) \/ (y % 400 = 0)

DaysInYear(y) == IF IsLeap(y) THEN 366 ELSE 365

DaysInMonth(y, m) ==
    IF m = 2 THEN (IF IsLeap(y) THEN 29 ELSE 28)
    ELSE IF m \in {4, 6, 9, 11} THEN 30 ELSE 31

\* the days of a common year that lie before each month
DAYS_BEFORE_MONTH == << 0, 31, 59, 90, 120, 151, 181, 212, 243, 273, 304, 334 >>

DaysBeforeMonth(y, m) ==
    DAYS_BEFORE_MONTH[m] + (IF m > 2 /\ IsLeap(y) THEN 1 ELSE 0)

\* the date that lies d days (d >= 0) after 1 January of year y
RECURSIVE DateFromYear(_, _)
DateFromYear(y, d) ==
    IF d >= DaysInYear(y) THEN DateFromYear(y + 1, d - DaysInYear(y))
    ELSE LET m == CHOOSE k \in 1..12 :
                      /\ DaysBeforeMonth(y, k) <= d
                      /\ d < DaysBeforeMonth(y, k) + DaysInMonth(y, k)
         IN  [year |-> y, month |-> m, day |-> d - DaysBeforeMonth(y, m) + 1,
              yday |-> d + 1]

\* START_DATE + timedelta(days = n)
DatePlusDays(n) ==
    DateFromYear(START_YEAR,
                 DaysBeforeMonth(START_YEAR, START_MONTH) + (START_DAY - 1) + n)

\* week_date = START_DATE + timedelta(weeks=week_num), line 181
WeekDate(week) == DatePlusDays(7 * week)

\* week_date.isocalendar()[1]: every week_date is a Monday (START_DATE is
\* one), and the ISO week of a Monday is the week of the year of its Thursday
IsoWeek(week) == ((DatePlusDays(7 * week + 3).yday - 1) \div 7) + 1

\* mutant of Strftime: the format '%Y-%m', without the day
Strftime_no_day(date) ==
    << date.year \div 1000, (date.year \div 100) % 10, (date.year \div 10) % 10,
       date.year % 10, 10, date.month \div 10, date.month % 10 >>

\* week_date.strftime('%Y-%m-%d'): the fixed-width text "YYYY-MM-DD", as the
\* sequence of its ten characters' digits (the dashes are 10)
Strftime(date) ==
    << date.year \div 1000, (date.year \div 100) % 10, (date.year \div 10) % 10,
       date.year % 10, 10, date.month \div 10, date.month % 10, 10,
       date.day \div 10, date.day % 10 >>

----------------------------------------------------------------------------
(* The random generator: np.random.seed, np.random.normal, np.random.random *)

\* the generator's next state
RngNext(r) == (r * 25173 + 13849) % 65536

\* np.random.seed(seed): the state the generator starts from
np_random_seed(seed, strm) == RngNext((seed * 1009 + strm * 7919) % 65536)

\* quantiles of the standard normal distribution, in thousandths
ZTABLE == << -7000, -6500, -3000, -2000, -1500, -1000, -500, 0, 0, 500, 1000,
             1500, 2000, 3000, 6500, 7000 >>

ZVALUES == { ZTABLE[i] : i \in 1..Len(ZTABLE) }

\* the standard normal draw made in state r
StdNormal(r) == ZTABLE[((r \div 4096) % 16) + 1]

\* np.random.normal(loc, scale) for the standard draw z, thousandths
Normal(loc, scale, z) == loc + FxMul(scale, z)

\* np.random.normal(loc, scale) drawn in state r
np_random_normal(loc, scale, r) == Normal(loc, scale, StdNormal(r))

\* np.random.random() drawn in state r: uniform on [0, 1), thousandths
np_random_random(r) == (r \div 64) % 1000

----------------------------------------------------------------------------
(* The covariates, lines 75-123 *)

region_base_temps ==
    [ CO_Rocky_Mountains |-> 35, UT_High_Elevation |-> 38, WY_Mountain |-> 30,
      MT_Northern |-> 28, ID_Mountain |-> 32, CA_NV_Tahoe |-> 36,
      OR_WA_Pacific_NW |-> 42, VT_ME_NH_New_England |-> 34 ]

\* seasonal_swing, line 92
seasonal_swing == 35

\* generate_temperature_data; noise is the draw np.random.normal(0, 5)
generate_temperature_data(week, region, noise) ==
    LET season_factor == SinWeekShifted(week)
        base_temp     == region_base_temps[region] * 1000
        avg           == base_temp + season_factor * seasonal_swing
    IN  avg + noise

\* mutant of generate_economic_indicator: the clamp left out
generate_economic_indicator_unclamped(week, noise) ==
    70000 + (week * 15000) \div WEEKS + noise

\* generate_economic_indicator; noise is the draw np.random.normal(0, 5)
generate_economic_indicator(week, noise) ==
    LET trend == 70000 + (week * 15000) \div WEEKS
    IN  Max(50000, Min(100000, trend + noise))

regional_base ==
    [ CO_Rocky_Mountains |-> 150, UT_High_Elevation |-> 120, WY_Mountain |-> 40,
      MT_Northern |-> 50, ID_Mountain |-> 60, CA_NV_Tahoe |-> 100,
      OR_WA_Pacific_NW |-> 140, VT_ME_NH_New_England |-> 80 ]

\* generate_housing_starts; noise is the draw np.random.normal(0, 10).
\* The result is an integer (units, not thousandths).
generate_housing_starts(week, region, noise) ==
    LET season_factor == TruncDiv(SinWeek(week) * 3, 10) + 1000
        base          == regional_base[region]
    IN  TruncDiv(base * season_factor + noise, 1000)

----------------------------------------------------------------------------
(* The demand model, lines 125-226 *)

HEATING == {"Cold_Climate_Heat_Pump", "Variable_Gas_Furnace"}

AIR_HANDLERS == {"Standard_Air_Handler", "High_Altitude_Air_Handler"}

\* mutant of calculate_seasonality_factor: the winter window of the heating
\* products is tested before the fall window
calculate_seasonality_factor_winter_first(week, product) ==
    LET week_of_year == week % 52
    IN  IF product \in HEATING
        THEN IF week_of_year >= 45 \/ week_of_year <= 10 THEN 1500
             ELSE IF 35 <= week_of_year /\ week_of_year <= 45 THEN 1800
             ELSE IF 10 < week_of_year /\ week_of_year <= 20 THEN 1100
             ELSE 600
        ELSE IF product \in AIR_HANDLERS
        THEN IF week_of_year \in 15..24 \/ week_of_year \in 35..44 THEN 1300
             ELSE 1000
        ELSE IF product = "Replacement_Parts"
        THEN IF week_of_year >= 48 \/ week_of_year <= 8 THEN 1700 ELSE 1000
        ELSE IF product = "Maintenance_Contract"
        THEN IF week_of_year \in 12..21 \/ week_of_year \in 38..47 THEN 1400
             ELSE 900
        ELSE 1000

\* mutant of calculate_seasonality_factor: the windows of range() include
\* their upper ends
calculate_seasonality_factor_closed_ranges(week, product) ==
    LET week_of_year == week % 52
    IN  IF product \in HEATING
        THEN IF 35 <= week_of_year /\ week_of_year <= 45 THEN 1800
             ELSE IF week_of_year >= 45 \/ week_of_year <= 10 THEN 1500
             ELSE IF 10 < week_of_year /\ week_of_year <= 20 THEN 1100
             ELSE 600
        ELSE IF product \in AIR_HANDLERS
        THEN IF week_of_year \in 15..25 \/ week_of_year \in 35..45 THEN 1300
             ELSE 1000
        ELSE IF product = "Replacement_Parts"
        THEN IF week_of_year >= 48 \/ week_of_year <= 8 THEN 1700 ELSE 1000
        ELSE IF product = "Maintenance_Contract"
        THEN IF week_of_year \in 12..22 \/ week_of_year \in 38..48 THEN 1400
             ELSE 900
        ELSE 1000

\* the branch of the if/elif chain of lines 131-161 a product takes; the
\* names that contain 'Air_Handler' are those of AIR_HANDLERS
seasonality_branch(product) ==
    IF product \in HEATING THEN "heating"
    ELSE IF product \in AIR_HANDLERS THEN "air_handler"
    ELSE IF product = "Replacement_Parts" THEN "parts"
    ELSE IF product = "Maintenance_Contract" THEN "maintenance"
    ELSE "default"

\* calculate_seasonality_factor, thousandths
calculate_seasonality_factor(week, product) ==
    LET week_of_year == week % 52
    IN  IF product \in HEATING
        THEN IF 35 <= week_of_year /\ week_of_year <= 45 THEN 1800
             ELSE IF week_of_year >= 45 \/ week_of_year <= 10 THEN 1500
             ELSE IF 10 < week_of_year /\ week_of_year <= 20 THEN 1100
             ELSE 600
        ELSE IF product \in AIR_HANDLERS
        THEN IF week_of_year \in 15..24 \/ week_of_year \in 35..44 THEN 1300
             ELSE 1000
        ELSE IF product = "Replacement_Parts"
        THEN IF week_of_year >= 48 \/ week_of_year <= 8 THEN 1700 ELSE 1000
        ELSE IF product = "Maintenance_Contract"
        THEN IF week_of_year \in 12..21 \/ week_of_year \in 38..47 THEN 1400
             ELSE 900
        ELSE 1000

\* generate_base_demand
generate_base_demand(product) ==
    [ Cold_Climate_Heat_Pump |-> 45, Variable_Gas_Furnace |-> 55,
      Standard_Air_Handler |-> 35, High_Altitude_Air_Handler |-> 28,
      Replacement_Parts |-> 180, Maintenance_Contract |-> 25 ][product]

\* mutant of temp_factor: the temperature acts on every product
temp_factor_every_product(product, temp) ==
    1000 + TruncDiv(50000 - temp, 100)

\* lines 198-201
temp_factor(product, temp) ==
    IF product \in HEATING THEN 1000 + TruncDiv(50000 - temp, 100) ELSE 1000

\* lines 204-207
housing_factor(product, housing) ==
    IF product \notin {"Replacement_Parts", "Maintenance_Contract"}
    THEN 1000 + housing
    ELSE 1000

\* line 210
economic_factor(economic) == 700 + TruncDiv(economic * 6, 1000)

\* mutant of growth_factor: a decline instead of a growth
growth_factor_decline(week) == 1000 - (week * 450) \div WEEKS

\* line 213
growth_factor(week) == 1000 + (week * 450) \div WEEKS

\* lines 216-217: the product of the base demand and the six multipliers,
\* taken from left to right, thousandths
demand_product(base, rf, seasonality, tf, hf, ef, gf) ==
    FxMul(FxMul(FxMul(FxMul(FxMul(FxMul(base * 1000, rf), seasonality), tf),
                      hf), ef), gf)

\* mutant of apply_noise: the floor at 0 left out
apply_noise_unfloored(total, noise) == TruncDiv(FxMul(total, noise), 1000)

\* line 221: max(0, int(total_demand * noise))
apply_noise(total, noise) == Max(0, TruncDiv(FxMul(total, noise), 1000))

\* lines 190-221: total demand of a (week, region, product) cell for given
\* covariates; noise is the draw np.random.normal(1.0, 0.15)
cell_total_demand(week, region, product, temp, economic, housing, noise) ==
    apply_noise(demand_product(generate_base_demand(product),
                               REGION_FACTORS[region],
                               calculate_seasonality_factor(week, product),
                               temp_factor(product, temp),
                               housing_factor(product, housing),
                               economic_factor(economic),
                               growth_factor(week)),
                noise)

\* the totals t for which the double product t * 0.35 lies just below the
\* integer 35t/100, so that int() yields one less (0.35 has no exact double;
\* the other mix fractions give the exact quotient for every t < 5000)
SHORT35 == { 180, 340, 360, 660, 680, 700, 720, 1300, 1320, 1340, 1360, 1380,
             1400, 1420, 1440, 1460, 2580, 2600, 2620, 2640, 2660, 2680, 2700,
             2720, 2740, 2760, 2780, 2800, 2820, 2840, 2860, 2880, 2900, 2920 }

\* mutant of segment_demand_of: rounded to the nearest unit, not truncated
segment_demand_of_rounded(total, product, segment) ==
    (total * SEGMENT_MIX[product][segment] + 50) \div 100

\* lines 225-226: int(total_demand * segment_pct)
segment_demand_of(total, product, segment) ==
    LET segment_pct == SEGMENT_MIX[product][segment]
        exact       == (total * segment_pct) \div 100
    IN  IF segment_pct = 35 /\ total \in SHORT35 THEN exact - 1 ELSE exact

----------------------------------------------------------------------------
(* The rows, lines 228-260 *)

\* mutant of revenue_of: the two discounts exchanged
revenue_of_swapped(product, segment, demand) ==
    LET revenue == demand * PRODUCT_PRICES[product]
    IN  IF segment = "B2G" /\ demand > 0 THEN revenue * 95
        ELSE IF segment = "B2B" /\ demand > 0 THEN revenue * 92
        ELSE revenue * 100

\* mutant of revenue_of: a surcharge of 8% instead of a discount
revenue_of_surcharge(product, segment, demand) ==
    LET revenue == demand * PRODUCT_PRICES[product]
    IN  IF segment = "B2G" /\ demand > 0 THEN revenue * 108
        ELSE IF segment = "B2B" /\ demand > 0 THEN revenue * 95
        ELSE revenue * 100

\* lines 229-237 and round(revenue, 2) of line 249, in cents: the price is
\* a whole number of dollars, so the discounted amount is a whole number of
\* cents and rounding to 2 decimals leaves it as it is
revenue_of(product, segment, demand) ==
    LET revenue == demand * PRODUCT_PRICES[product]
    IN  IF segment = "B2G" /\ demand > 0 THEN revenue * 92
        ELSE IF segment = "B2B" /\ demand > 0 THEN revenue * 95
        ELSE revenue * 100

\* mutant of keep_row: the comparison of the draw turned around
keep_row_flipped(demand, draw) == demand > 0 \/ draw < 700

\* line 228: the row is kept; draw is np.random.random(), consulted only
\* when the demand is not positive
keep_row(demand, draw) == demand > 0 \/ draw > 700

\* mutant of make_record: the temperature differs from product to product
make_record_product_temp(date, isoweek, region, product, segment, demand, temp, economic, housing) ==
    [ WEEK_START_DATE   |-> Strftime(date),
      YEAR              |-> date.year,
      QUARTER           |-> ((date.month - 1) \div 3) + 1,
      MONTH             |-> date.month,
      WEEK_OF_YEAR      |-> isoweek,
      REGION            |-> region,
      PRODUCT           |-> product,
      CUSTOMER_SEGMENT  |-> segment,
      DEMAND_UNITS      |-> demand,
      REVENUE           |-> revenue_of(product, segment, demand),
      AVG_TEMPERATURE_F |-> Round1(temp) + 100 * IndexIn(PRODUCTS, product),
      ECONOMIC_INDEX    |-> Round1(economic),
      HOUSING_STARTS    |-> housing,
      IS_HOLIDAY_WEEK   |-> IF date.month = 12 /\ date.day >= 20 THEN 1 ELSE 0,
      IS_WINTER         |-> IF date.month \in {12, 1, 2} THEN 1 ELSE 0,
      IS_SPRING         |-> IF date.month \in {3, 4, 5} THEN 1 ELSE 0,
      IS_SUMMER         |-> IF date.month \in {6, 7, 8} THEN 1 ELSE 0,
      IS_FALL           |-> IF date.month \in {9, 10, 11} THEN 1 ELSE 0 ]

\* mutant of make_record: March is flagged as winter as well
make_record_march_winter(date, isoweek, region, product, segment, demand, temp, economic, housing) ==
    [ WEEK_START_DATE   |-> Strftime(date),
      YEAR              |-> date.year,
      QUARTER           |-> ((date.month - 1) \div 3) + 1,
      MONTH             |-> date.month,
      WEEK_OF_YEAR      |-> isoweek,
      REGION            |-> region,
      PRODUCT           |-> product,
      CUSTOMER_SEGMENT  |-> segment,
      DEMAND_UNITS      |-> demand,
      REVENUE           |-> revenue_of(product, segment, demand),
      AVG_TEMPERATURE_F |-> Round1(temp),
      ECONOMIC_INDEX    |-> Round1(economic),
      HOUSING_STARTS    |-> housing,
      IS_HOLIDAY_WEEK   |-> IF date.month = 12 /\ date.day >= 20 THEN 1 ELSE 0,
      IS_WINTER         |-> IF date.month \in {12, 1, 2, 3} THEN 1 ELSE 0,
      IS_SPRING         |-> IF date.month \in {3, 4, 5} THEN 1 ELSE 0,
      IS_SUMMER         |-> IF date.month \in {6, 7, 8} THEN 1 ELSE 0,
      IS_FALL           |-> IF date.month \in {9, 10, 11} THEN 1 ELSE 0 ]

\* lines 239-258
make_record(date, isoweek, region, product, segment, demand, temp, economic, housing) ==
    [ WEEK_START_DATE   |-> Strftime(date),
      YEAR              |-> date.year,
      QUARTER           |-> ((date.month - 1) \div 3) + 1,
      MONTH             |-> date.month,
      WEEK_OF_YEAR      |-> isoweek,
      REGION            |-> region,
      PRODUCT           |-> product,
      CUSTOMER_SEGMENT  |-> segment,
      DEMAND_UNITS      |-> demand,
      REVENUE           |-> revenue_of(product, segment, demand),
      AVG_TEMPERATURE_F |-> Round1(temp),
      ECONOMIC_INDEX    |-> Round1(economic),
      HOUSING_STARTS    |-> housing,
      IS_HOLIDAY_WEEK   |-> IF date.month = 12 /\ date.day >= 20 THEN 1 ELSE 0,
      IS_WINTER         |-> IF date.month \in {12, 1, 2} THEN 1 ELSE 0,
      IS_SPRING         |-> IF date.month \in {3, 4, 5} THEN 1 ELSE 0,
      IS_SUMMER         |-> IF date.month \in {6, 7, 8} THEN 1 ELSE 0,
      IS_FALL           |-> IF date.month \in {9, 10, 11} THEN 1 ELSE 0 ]

\* the key of a row
KeyOf(row) == << row.WEEK_START_DATE, row.REGION, row.PRODUCT,
                 row.CUSTOMER_SEGMENT >>

----------------------------------------------------------------------------
(* generate_hvac_data, lines 175-263 *)

NoCell == [valid |-> FALSE]

\* the output file does not exist yet
NoFile == [written |-> FALSE]

\* the report is not deployed: no tables, no viewers
NoReport ==
    /\ forecast_tbl = {}
    /\ historical_tbl = {}
    /\ now = 0
    /\ cache = << >>
    /\ session = << >>
    /\ view = << >>

\* the first run of the program; nothing has been written
NoRun ==
    /\ how = "first"
    /\ csv = NoFile

\* the module has been imported: line 11 has seeded the generator
Init ==
    /\ stream \in 0..(Streams - 1)
    /\ rng = np_random_seed(SEED, stream)
    /\ pc = "start"
    /\ week_num = 0
    /\ week_date = WeekDate(0)
    /\ ri = 1
    /\ pi = 1
    /\ si = 1
    /\ avg_temp = 0
    /\ economic_index = 0
    /\ housing_starts = 0
    /\ total_demand = 0
    /\ records = << >>
    /\ n_records = 0
    /\ n_cells = 0
    /\ last = NoCell
    /\ digest = 0
    /\ fn = [name |-> "none"]
    /\ NoRun
    /\ NoReport

\* mutant of week_in_range: the loop stops one week early
week_in_range_short(week) == week < WEEKS - 1

\* line 180: range(WEEKS) still yields week_num
week_in_range(week) == week < WEEKS

\* line 178: records = []
Start ==
    /\ pc = "start"
    /\ pc' = "week"
    /\ week_num' = 0
    /\ records' = << >>
    /\ n_records' = 0
    /\ n_cells' = 0
    /\ digest' = 0
    /\ UNCHANGED << rng, stream, week_date, ri, pi, si, avg_temp,
                    economic_index, housing_starts, total_demand, last, fn,
                    runvars, dashvars >>

\* lines 180-181, and 262-263 when range(WEEKS) is exhausted
WeekStep ==
    /\ pc = "week"
    /\ \/ /\ week_in_range(week_num)
          /\ week_date' = WeekDate(week_num)
          /\ ri' = 1
          /\ pc' = "region"
       \/ /\ ~week_in_range(week_num)
          /\ pc' = "done"
          /\ UNCHANGED << week_date, ri >>
    /\ UNCHANGED << rng, stream, week_num, pi, si, avg_temp, economic_index,
                    housing_starts, total_demand, records, n_records, n_cells,
                    last, digest, fn, runvars, dashvars >>

\* lines 183-187: the three covariates of the (week, region), drawn in
\* this order; past the last region, the next week
RegionStep ==
    /\ pc = "region"
    /\ \/ /\ ri <= Len(REGIONS)
          /\ avg_temp' = generate_temperature_data(
                             week_num, REGIONS[ri],
                             np_random_normal(0, 5000, rng))
          /\ economic_index' = generate_economic_indicator(
                                   week_num,
                                   np_random_normal(0, 5000, RngNext(rng)))
          /\ housing_starts' = generate_housing_starts(
                                   week_num, REGIONS[ri],
                                   np_random_normal(0, 10000,
                                                    RngNext(RngNext(rng))))
          /\ rng' = RngNext(RngNext(RngNext(rng)))
          /\ pi' = 1
          /\ pc' = "product"
          /\ UNCHANGED week_num
       \/ /\ ri > Len(REGIONS)
          /\ week_num' = week_num + 1
          /\ pc' = "week"
          /\ UNCHANGED << rng, pi, avg_temp, economic_index, housing_starts >>
    /\ UNCHANGED << stream, week_date, ri, si, total_demand, records,
                    n_records, n_cells, last, digest, fn, runvars, dashvars >>

\* lines 189-221: the total demand of the (week, region, product); past the
\* last product, the next region
ProductStep ==
    /\ pc = "product"
    /\ \/ /\ pi <= Len(PRODUCTS)
          /\ total_demand' = cell_total_demand(
                                 week_num, REGIONS[ri], PRODUCTS[pi], avg_temp,
                                 economic_index, housing_starts,
                                 np_random_normal(1000, 150, rng))
          /\ rng' = RngNext(rng)
          /\ si' = 1
          /\ pc' = "segment"
          /\ UNCHANGED ri
       \/ /\ pi > Len(PRODUCTS)
          /\ ri' = ri + 1
          /\ pc' = "region"
          /\ UNCHANGED << rng, si, total_demand >>
    /\ UNCHANGED << stream, week_num, week_date, pi, avg_temp, economic_index,
                    housing_starts, records, n_records, n_cells, last, digest,
                    fn, runvars, dashvars >>

\* the columns of a row in one number: the date through its digits, the
\* names through their places in the lists of the configuration
ChecksumCols(row) ==
    LET date == row.WEEK_START_DATE
        char(i) == IF i <= Len(date) THEN date[i] ELSE 0
    IN  (char(1) * 1000 + char(2) * 100 + char(3) * 10 + char(4)) * 3
        + (char(6) * 10 + char(7)) * 5 + (char(9) * 10 + char(10)) * 7
        + Len(date) * 83
        + row.YEAR * 11 + row.QUARTER * 13 + row.MONTH * 17
        + row.WEEK_OF_YEAR * 19 + IndexIn(REGIONS, row.REGION) * 23
        + IndexIn(PRODUCTS, row.PRODUCT) * 29
        + IndexIn(SEGMENTS, row.CUSTOMER_SEGMENT) * 37
        + (row.DEMAND_UNITS % 65521) * 41 + (row.REVENUE % 65521) * 43
        + (row.AVG_TEMPERATURE_F % 65521) * 47
        + (row.ECONOMIC_INDEX % 65521) * 53
        + (row.HOUSING_STARTS % 65521) * 59 + row.IS_HOLIDAY_WEEK * 61
        + row.IS_WINTER * 67 + row.IS_SPRING * 71 + row.IS_SUMMER * 73
        + row.IS_FALL * 79

\* the rows of this week and region are kept in `records'
Recorded(week, region_index) ==
    week < MaxRecWeeks /\ region_index <= MaxRecRegions

\* the checksum of the rows after `row' is appended: every column of the
\* row enters it
Checksum(sum, row) ==
    CHOOSE d \in { (s * 31 + ChecksumCols(r)) % 65521 :
                       r \in {row}, s \in {sum} } : TRUE

\* lines 224-260: one candidate cell; np.random.random() is drawn only when
\* the segment demand is not positive (`or' does not evaluate its right
\* side otherwise); past the last segment, the next product
SegmentStep ==
    /\ pc = "segment"
    /\ \/ /\ si <= Len(SEGMENTS)
          /\ LET region  == REGIONS[ri]
                 product == PRODUCTS[pi]
                 segment == SEGMENTS[si]
                 demand  == segment_demand_of(total_demand, product, segment)
                 drew    == ~(demand > 0)
                 draw    == np_random_random(rng)
                 kept    == keep_row(demand, draw)
                 row     == make_record(week_date, IsoWeek(week_num), region,
                                        product, segment, demand, avg_temp,
                                        economic_index, housing_starts)
             IN  /\ rng' = IF drew THEN RngNext(rng) ELSE rng
                 /\ records' = IF kept /\ Recorded(week_num, ri)
                               THEN Append(records, row)
                               ELSE records
                 /\ n_records' = IF kept THEN n_records + 1 ELSE n_records
                 /\ n_cells' = n_cells + 1
                 /\ digest' = IF kept THEN Checksum(digest, row) ELSE digest
                 /\ last' = [ valid |-> TRUE, week |-> week_num,
                              region |-> region, product |-> product,
                              segment |-> segment, total |-> total_demand,
                              segment_demand |-> demand, drew |-> drew,
                              draw |-> draw, kept |-> kept, row |-> row ]
          /\ si' = si + 1
          /\ UNCHANGED << pi, pc >>
       \/ /\ si > Len(SEGMENTS)
          /\ pi' = pi + 1
          /\ pc' = "product"
          /\ UNCHANGED << rng, si, records, n_records, n_cells, last,
                          digest >>
    /\ UNCHANGED << stream, week_num, week_date, ri, avg_temp, economic_index,
                    housing_starts, total_demand, fn, runvars, dashvars >>

Next == Start \/ WeekStep \/ RegionStep \/ ProductStep \/ SegmentStep

Spec == Init /\ [][Next]_vars

\* the run is one sequential batch pass: a step that can be taken is taken
FairSpec == Spec /\ WF_vars(Next)

----------------------------------------------------------------------------
(* The program run more than once: main(), lines 265-296, and the seeding  *)
(* of line 11, which happens once per process, when the module is loaded   *)

\* the table generate_hvac_data() returns (line 263)
Table == [ written |-> TRUE, rows |-> records, count |-> n_records,
           checksum |-> digest ]

\* mutant of reseed: a new process seeds the generator from where the last
\* one left it
reseed_carried(r, strm) == r

\* lines 10-11 in a new process: the generator is seeded again
reseed(r, strm) == np_random_seed(SEED, strm)

\* the local variables of a new invocation
FreshLocals ==
    /\ pc' = "start"
    /\ week_num' = 0
    /\ week_date' = WeekDate(0)
    /\ ri' = 1
    /\ pi' = 1
    /\ si' = 1
    /\ avg_temp' = 0
    /\ economic_index' = 0
    /\ housing_starts' = 0
    /\ total_demand' = 0
    /\ records' = << >>
    /\ n_records' = 0
    /\ n_cells' = 0
    /\ last' = NoCell
    /\ digest' = 0

\* line 281: df.to_csv(output_file, index=False) overwrites the file
ToCsv ==
    /\ pc = "done"
    /\ pc' = "written"
    /\ csv' = Table
    /\ UNCHANGED << rng, stream, week_num, week_date, ri, pi, si, avg_temp,
                    economic_index, housing_starts, total_demand, records,
                    n_records, n_cells, last, digest, fn, how, dashvars >>

\* the program is run a second time: a new process loads the module
\* (line 11 seeds the generator) and calls main() (lines 298-299)
Rerun ==
    /\ pc = "written"
    /\ how = "first"
    /\ how' = "rerun"
    /\ rng' = reseed(rng, stream)
    /\ FreshLocals
    /\ UNCHANGED << stream, fn, csv, dashvars >>

\* main() is called a second time in the same process: line 11 is not
\* executed again, the generator continues where the first call left it
Reinvoke ==
    /\ pc = "written"
    /\ how = "first"
    /\ how' = "reinvoke"
    /\ FreshLocals
    /\ UNCHANGED << rng, stream, fn, csv, dashvars >>

RunsNext == Next \/ ToCsv \/ Rerun \/ Reinvoke

\* the two runs follow the first draw sequence
RunsInit ==
    /\ Init
    /\ stream = 0

RunsSpec == RunsInit /\ [][RunsNext]_vars

----------------------------------------------------------------------------
(* The functions of the generator applied on their own: the arguments are  *)
(* drawn by the initial state, one step applies the function.              *)

\* the weeks at which the demand of a cell is evaluated on its own
FN_WEEKS == {0, 39, 91, 155}

\* covariate values the demand is evaluated at: temperatures from the
\* coldest to beyond the warmest a region reaches, the ends of the economic
\* index, housing starts below and above zero
FN_TEMPS == {-42000, 35000, 112000, 160000}

FN_ECONOMIC == {50000, 100000}

FN_HOUSING == {-42, 265}

FnArgs(name, week, region, product, temp, economic, housing, z) ==
    [ name |-> name, done |-> FALSE, week |-> week, region |-> region,
      product |-> product, temp |-> temp, economic |-> economic,
      housing |-> housing, z |-> z, season |-> 0, value |-> 0, prev |-> 0,
      factor |-> 0 ]

RegionSet == { REGIONS[i] : i \in 1..Len(REGIONS) }

ProductSet == { PRODUCTS[i] : i \in 1..Len(PRODUCTS) }

EconomicArgs ==
    { FnArgs("economic", w, REGIONS[1], PRODUCTS[1], 0, 0, 0, z) :
        w \in 0..(WEEKS - 1), z \in ZVALUES }

HousingArgs ==
    { FnArgs("housing", w, r, PRODUCTS[1], 0, 0, 0, z) :
        w \in 0..(WEEKS - 1), r \in RegionSet, z \in ZVALUES }

DemandArgs ==
    { FnArgs("demand", a[1], a[2], a[3], a[4], a[5], a[6], a[7]) :
        a \in FN_WEEKS \X RegionSet \X ProductSet \X FN_TEMPS \X FN_ECONOMIC
              \X FN_HOUSING \X ZVALUES }

\* the growth of the demand over the weeks, every other factor held fixed:
\* the seasonality is that of week a[1] throughout
GrowthArgs ==
    { [ FnArgs("growth", 0, a[2], a[3], a[4], a[5], a[6], 0)
          EXCEPT !.season = calculate_seasonality_factor(a[1], a[3]) ] :
        a \in {0, 13, 26, 39} \X RegionSet \X ProductSet \X {-42000, 160000}
              \X {100000} \X {265} }

\* the generator itself is not running
GeneratorIdle ==
    /\ pc = "idle"
    /\ stream = 0
    /\ rng = np_random_seed(SEED, 0)
    /\ week_num = 0
    /\ week_date = WeekDate(0)
    /\ ri = 1
    /\ pi = 1
    /\ si = 1
    /\ avg_temp = 0
    /\ economic_index = 0
    /\ housing_starts = 0
    /\ total_demand = 0
    /\ records = << >>
    /\ n_records = 0
    /\ n_cells = 0
    /\ last = NoCell
    /\ digest = 0

FnInit ==
    /\ fn \in EconomicArgs \cup HousingArgs \cup DemandArgs
    /\ GeneratorIdle
    /\ NoRun
    /\ NoReport

GrowthInit ==
    /\ fn \in GrowthArgs
    /\ GeneratorIdle
    /\ NoRun
    /\ NoReport

\* generate_economic_indicator and the economic factor of line 210
ApplyEconomic ==
    /\ fn.name = "economic" /\ ~fn.done
    /\ LET index == generate_economic_indicator(fn.week,
                                                Normal(0, 5000, fn.z))
       IN  fn' = [fn EXCEPT !.done = TRUE, !.value = index,
                            !.factor = economic_factor(index)]
    /\ UNCHANGED << genvars, runvars, dashvars >>

\* generate_housing_starts
ApplyHousing ==
    /\ fn.name = "housing" /\ ~fn.done
    /\ fn' = [fn EXCEPT !.done = TRUE,
                        !.value = generate_housing_starts(
                                      fn.week, fn.region,
                                      Normal(0, 10000, fn.z))]
    /\ UNCHANGED << genvars, runvars, dashvars >>

\* lines 190-221
ApplyDemand ==
    /\ fn.name = "demand" /\ ~fn.done
    /\ fn' = [fn EXCEPT !.done = TRUE,
                        !.value = cell_total_demand(
                                      fn.week, fn.region, fn.product, fn.temp,
                                      fn.economic, fn.housing,
                                      Normal(1000, 150, fn.z))]
    /\ UNCHANGED << genvars, runvars, dashvars >>

\* lines 190-221 with the noise at 1.0 and the seasonality held at fn.season
GrowthDemand(week) ==
    apply_noise(demand_product(generate_base_demand(fn.product),
                               REGION_FACTORS[fn.region], fn.season,
                               temp_factor(fn.product, fn.temp),
                               housing_factor(fn.product, fn.housing),
                               economic_factor(fn.economic),
                               growth_factor(week)),
                1000)

ApplyGrowth ==
    /\ fn.name = "growth"
    /\ \/ /\ ~fn.done
          /\ fn' = [fn EXCEPT !.done = TRUE, !.value = GrowthDemand(0),
                              !.prev = GrowthDemand(0)]
       \/ /\ fn.done
          /\ fn.week + 1 < WEEKS
          /\ fn' = [fn EXCEPT !.week = fn.week + 1, !.prev = fn.value,
                              !.value = GrowthDemand(fn.week + 1)]
    /\ UNCHANGED << genvars, runvars, dashvars >>

FnNext == ApplyEconomic \/ ApplyHousing \/ ApplyDemand

FnSpec == FnInit /\ [][FnNext]_vars

GrowthNext == ApplyGrowth

GrowthSpec == GrowthInit /\ [][GrowthNext]_vars

\* the seasonality is looked up for every week of the run and every product
SeasonalityArgs ==
    { [ name |-> "seasonality", done |-> FALSE, week |-> w, product |-> p,
        week_of_year |-> 0, seasonality |-> 0, branch |-> "none" ] :
        w \in 0..(WEEKS - 1), p \in ProductSet }

\* the factors of lines 197-207 and the demand they lead to
FactorArgs ==
    { [ name |-> "factors", done |-> FALSE, week |-> a[1], region |-> a[2],
        product |-> a[3], temp |-> a[4], economic |-> a[5], housing |-> a[6],
        z |-> a[7], temp_factor |-> 0, housing_factor |-> 0, demand |-> 0 ] :
        a \in {39, 91} \X {REGIONS[1], REGIONS[8]} \X ProductSet \X FN_TEMPS
              \X {100000} \X FN_HOUSING \X {-500, 0, 1000} }

\* the total demands the split is applied to: 0 .. MaxTotal
MaxTotal == 400

\* the split of lines 224-226 for every product and total
SplitArgs ==
    { [ name |-> "split", done |-> FALSE, product |-> p, total |-> t,
        B2B |-> 0, B2G |-> 0, B2C |-> 0 ] :
        p \in ProductSet, t \in 0..MaxTotal }

FactorInit ==
    /\ fn \in SeasonalityArgs \cup FactorArgs \cup SplitArgs
    /\ GeneratorIdle
    /\ NoRun
    /\ NoReport

\* calculate_seasonality_factor, lines 125-161
ApplySeasonality ==
    /\ fn.name = "seasonality" /\ ~fn.done
    /\ fn' = [fn EXCEPT !.done = TRUE,
                        !.week_of_year = fn.week % 52,
                        !.seasonality = calculate_seasonality_factor(
                                            fn.week, fn.product),
                        !.branch = seasonality_branch(fn.product)]
    /\ UNCHANGED << genvars, runvars, dashvars >>

\* lines 197-221 for one (week, region, product)
ApplyFactors ==
    /\ fn.name = "factors" /\ ~fn.done
    /\ fn' = [fn EXCEPT !.done = TRUE,
                        !.temp_factor = temp_factor(fn.product, fn.temp),
                        !.housing_factor = housing_factor(fn.product,
                                                          fn.housing),
                        !.demand = cell_total_demand(
                                       fn.week, fn.region, fn.product, fn.temp,
                                       fn.economic, fn.housing,
                                       Normal(1000, 150, fn.z))]
    /\ UNCHANGED << genvars, runvars, dashvars >>

\* lines 224-226: the loop over the segments of one cell
ApplySplit ==
    /\ fn.name = "split" /\ ~fn.done
    /\ fn' = [fn EXCEPT
                  !.done = TRUE,
                  !.B2B = segment_demand_of(fn.total, fn.product, "B2B"),
                  !.B2G = segment_demand_of(fn.total, fn.product, "B2G"),
                  !.B2C = segment_demand_of(fn.total, fn.product, "B2C")]
    /\ UNCHANGED << genvars, runvars, dashvars >>

FactorNext == ApplySeasonality \/ ApplyFactors \/ ApplySplit

FactorSpec == FactorInit /\ [][FactorNext]_vars

----------------------------------------------------------------------------
(* Model of ForecastHOL/forecast_comparison_dashboard.py, the report.      *)
(*                                                                         *)
(* A data set is the set of its rows; a week is the number of weeks after  *)
(* START_DATE (the historical weeks are 0 .. WEEKS-1, the forecast weeks   *)
(* follow them).  Demands are whole units.  One script run has three       *)
(* steps per viewer: the two cached loads of lines 81 and 82, then the     *)
(* rest of the script.  Streamlit runs the script again, from the top, on  *)
(* every change of a widget.                                               *)

\* number of concurrent viewers of the report
MaxViewers == 2

\* the clock advances in steps of this many seconds, up to MaxNow
TickSeconds == 300
MaxNow == 900

Viewers == 1..MaxViewers

\* line 48 and line 64: ttl=600
TTL == 600

\* lines 117-121: the keys of `methods', in the order of the dict
METHODS == << "Cortex_ML", "XGBoost", "Snowpark_ML" >>

\* the seven tabs of lines 153-161, by number
TABS == 1..7

\* lines 644 and 654: the [-30:] and [:30] of the overlay
RECENT_WEEKS == 30
FIRST_WEEKS == 30

\* sorted() of region names: the names in alphabetical order
REGIONS_SORTED == << "CA_NV_Tahoe", "CO_Rocky_Mountains", "ID_Mountain",
                     "MT_Northern", "OR_WA_Pacific_NW", "UT_High_Elevation",
                     "VT_ME_NH_New_England", "WY_Mountain" >>

(* The warehouse tables the report is checked against *)

ForecastRow(week, region, product, segment, method, demand) ==
    [ WEEK_START_DATE |-> week, REGION |-> region, PRODUCT |-> product,
      CUSTOMER_SEGMENT |-> segment, METHOD |-> method,
      FORECAST_DEMAND |-> demand ]

HistoricalRow(week, region, product, segment, demand) ==
    [ WEEK_START_DATE |-> week, REGION |-> region, PRODUCT |-> product,
      CUSTOMER_SEGMENT |-> segment, DEMAND_UNITS |-> demand ]

\* a demand that differs from cell to cell
CellDemand(week, ri_, pi_, si_, mi_) ==
    20 + ((week * 7 + ri_ * 13 + pi_ * 5 + si_ * 3 + mi_ * 11) % 17)

\* every method forecasts every cell of 2 regions, 2 products, 2 segments
\* for 3 weeks
ForecastFull ==
    { ForecastRow(w, REGIONS[r], PRODUCTS[p], SEGMENTS[g], METHODS[m],
                  CellDemand(w, r, p, g, m)) :
        w \in WEEKS..(WEEKS + 2), r \in 1..2, p \in 1..2, g \in 1..2,
        m \in 1..3 }

\* as ForecastFull, but XGBoost has no forecast for the first product and
\* Snowpark_ML none for the first region
ForecastHoles ==
    { row \in ForecastFull :
        /\ ~(row.METHOD = "XGBoost" /\ row.PRODUCT = PRODUCTS[1])
        /\ ~(row.METHOD = "Snowpark_ML" /\ row.REGION = REGIONS[1]) }

\* 32 weeks, one cell a week (the regions and products take turns), and
\* Cortex_ML forecasts the even weeks only
ForecastLong ==
    { row \in { ForecastRow(w, REGIONS[(w % 2) + 1],
                            PRODUCTS[((w \div 2) % 2) + 1], SEGMENTS[1],
                            METHODS[m], CellDemand(w, 1, 1, 1, m)) :
                  w \in WEEKS..(WEEKS + RECENT_WEEKS + 1), m \in 1..3 } :
        row.METHOD = "Cortex_ML" => row.WEEK_START_DATE % 2 = 0 }

\* four regions, one product, one segment, 2 weeks
ForecastWide ==
    { ForecastRow(w, REGIONS[r], PRODUCTS[1], SEGMENTS[1], METHODS[m],
                  CellDemand(w, r, 1, 1, m)) :
        w \in WEEKS..(WEEKS + 1), r \in 1..4, m \in 1..3 }

\* the history of `n' weeks that ends with week WEEKS-1, one cell a week
\* for a long history, every cell of 2 x 2 x 2 for a short one
HistoricalWeeks(n) ==
    IF n > 10
    THEN { HistoricalRow(w, REGIONS[(w % 2) + 1],
                         PRODUCTS[((w \div 2) % 2) + 1], SEGMENTS[1],
                         CellDemand(w, 1, 1, 1, 0)) :
             w \in (WEEKS - n)..(WEEKS - 1) }
    ELSE { HistoricalRow(w, REGIONS[r], PRODUCTS[p], SEGMENTS[g],
                         CellDemand(w, r, p, g, 0)) :
             w \in (WEEKS - n)..(WEEKS - 1), r \in 1..2, p \in 1..2,
             g \in 1..2 }

\* the pairs of tables of the warehouse
Warehouses ==
    { << ForecastFull, HistoricalWeeks(5) >>,
      << ForecastFull, HistoricalWeeks(3) >>,
      << ForecastHoles, HistoricalWeeks(10) >>,
      << ForecastLong, HistoricalWeeks(RECENT_WEEKS + 4) >>,
      << ForecastWide, HistoricalWeeks(0) >>,
      << {}, HistoricalWeeks(5) >> }

(* st.cache_data(ttl=600), lines 48 and 64 *)

NoEntry == [valid |-> FALSE]

\* mutant of cache_hit: an entry is served whatever its age
cache_hit_forever(entry, t) == entry.valid

\* an entry is served while it is younger than the ttl
cache_hit(entry, t) == entry.valid /\ t - entry.fetched_at < TTL

\* the entry after a call at time t that reads `table' on a miss
cache_call(entry, table, t) ==
    IF cache_hit(entry, t) THEN entry
    ELSE [valid |-> TRUE, data |-> table, fetched_at |-> t]

(* The widgets, lines 87-129 *)

\* the first n names of `names' that are in the set `present'
RECURSIVE FirstOf(_, _, _)
FirstOf(names, present, n) ==
    IF n = 0 \/ names = << >> THEN {}
    ELSE IF Head(names) \in present
         THEN {Head(names)} \cup FirstOf(Tail(names), present, n - 1)
         ELSE FirstOf(Tail(names), present, n)

\* lines 88-90: the options of the three data-driven widgets
region_options(df) == { row.REGION : row \in df }
product_options(df) == { row.PRODUCT : row \in df }
segment_options(df) == { row.CUSTOMER_SEGMENT : row \in df }
method_options == { METHODS[m] : m \in 1..Len(METHODS) }

\* the widget state of a new session: nothing has been touched
NoSelection ==
    [ touched |-> {}, regions |-> {}, products |-> {}, segments |-> {},
      methods |-> {} ]

\* what the four multiselects return: the user's choice once the widget
\* has been touched, the default before (line 96: the first three regions)
selected_regions(sel, df) ==
    IF "regions" \in sel.touched THEN sel.regions
    ELSE FirstOf(REGIONS_SORTED, region_options(df), 3)

selected_products(sel, df) ==
    IF "products" \in sel.touched THEN sel.products ELSE product_options(df)

selected_segments(sel, df) ==
    IF "segments" \in sel.touched THEN sel.segments ELSE segment_options(df)

selected_methods(sel) ==
    IF "methods" \in sel.touched THEN sel.methods ELSE method_options

(* The filter and the guard, lines 139-150 *)

\* mutant of filter_forecasts: the method selection is not applied
filter_forecasts_any_method(df, regions, products, segments, methods) ==
    { row \in df : /\ row.REGION \in regions
                   /\ row.PRODUCT \in products
                   /\ row.CUSTOMER_SEGMENT \in segments }

\* lines 140-145
filter_forecasts(df, regions, products, segments, methods) ==
    { row \in df : /\ row.REGION \in regions
                   /\ row.PRODUCT \in products
                   /\ row.CUSTOMER_SEGMENT \in segments
                   /\ row.METHOD \in methods }

\* mutant of is_empty: the guard never fires
is_empty_never(df) == FALSE

\* line 148: df_filtered.empty
is_empty(df) == df = {}

(* Aggregation *)

RECURSIVE SumForecast(_)
SumForecast(rows) ==
    IF rows = {} THEN 0
    ELSE LET row == CHOOSE x \in rows : TRUE
         IN  row.FORECAST_DEMAND + SumForecast(rows \ {row})

RECURSIVE SumDemand(_)
SumDemand(rows) ==
    IF rows = {} THEN 0
    ELSE LET row == CHOOSE x \in rows : TRUE
         IN  row.DEMAND_UNITS + SumDemand(rows \ {row})

\* line 171: groupby(['WEEK_START_DATE', 'METHOD']).sum()
weekly_by_method(df) ==
    { [ WEEK_START_DATE |-> k[1], METHOD |-> k[2],
        FORECAST_DEMAND |->
            SumForecast({ row \in df : /\ row.WEEK_START_DATE = k[1]
                                       /\ row.METHOD = k[2] }) ] :
        k \in { << row.WEEK_START_DATE, row.METHOD >> : row \in df } }

\* line 255: groupby(['REGION', 'METHOD']).sum()
regional_by_method(df) ==
    { [ REGION |-> k[1], METHOD |-> k[2],
        FORECAST_DEMAND |->
            SumForecast({ row \in df : /\ row.REGION = k[1]
                                       /\ row.METHOD = k[2] }) ] :
        k \in { << row.REGION, row.METHOD >> : row \in df } }

\* line 322: groupby(['PRODUCT', 'METHOD']).sum()
product_by_method(df) ==
    { [ PRODUCT |-> k[1], METHOD |-> k[2],
        FORECAST_DEMAND |->
            SumForecast({ row \in df : /\ row.PRODUCT = k[1]
                                       /\ row.METHOD = k[2] }) ] :
        k \in { << row.PRODUCT, row.METHOD >> : row \in df } }

\* line 351: df_product_pivot[selected_methods] raises KeyError when a
\* selected method is not a column of the pivot, that is, has no row in
\* the filtered data
pivot_key_error(df, methods) ==
    \E m \in methods : m \notin { row.METHOD : row \in df }

\* sorted() of the product names: the index of a pivot is in this order
PRODUCTS_SORTED == << "Cold_Climate_Heat_Pump", "High_Altitude_Air_Handler",
                      "Maintenance_Contract", "Replacement_Parts",
                      "Standard_Air_Handler", "Variable_Gas_Furnace" >>

\* no pivot has been made
NoPivot == [ columns |-> {}, rows |-> << >> ]

\* lines 350-351: one row per product; a row has a value in the column of
\* every method that has a row for the product (the other columns of the
\* row are NaN); AVG is the mean of the values in the selected columns,
\* NaN skipped, kept as sum and count
pivot_rows(df_product, methods) ==
    { [ PRODUCT |-> p,
        columns |->
            [ m \in { a.METHOD : a \in { b \in df_product : b.PRODUCT = p } }
                |-> SumForecast({ a \in df_product :
                                    a.PRODUCT = p /\ a.METHOD = m }) ],
        AVG_SUM |-> SumForecast({ a \in df_product :
                                    a.PRODUCT = p /\ a.METHOD \in methods }),
        AVG_COUNT |-> Cardinality({ a \in df_product :
                                      a.PRODUCT = p /\ a.METHOD \in methods })
      ] : p \in { a.PRODUCT : a \in df_product } }

\* a's AVG is above b's
avg_above(a, b) == a.AVG_SUM * b.AVG_COUNT > b.AVG_SUM * a.AVG_COUNT

\* line 352: sort_values('AVG', ascending=False); rows of equal AVG stay in
\* the order of the index
RECURSIVE sort_by_avg(_)
sort_by_avg(rows) ==
    IF rows = {} THEN << >>
    ELSE LET top == { a \in rows : \A b \in rows : ~avg_above(b, a) }
             first == CHOOSE a \in top :
                          \A b \in top : IndexIn(PRODUCTS_SORTED, a.PRODUCT)
                                            <= IndexIn(PRODUCTS_SORTED, b.PRODUCT)
         IN  << first >> \o sort_by_avg(rows \ {first})

\* lines 350-352: the table under the product chart
product_pivot(df_product, methods) ==
    [ columns |-> { a.METHOD : a \in df_product },
      rows |-> sort_by_avg(pivot_rows(df_product, methods)) ]

(* The seasonal view, lines 391-402 *)

\* mutant of season_of: March counts as winter
season_of_late_spring(m) ==
    IF m \in {12, 1, 2, 3} THEN "Winter"
    ELSE IF m \in {4, 5} THEN "Spring"
    ELSE IF m \in {6, 7, 8} THEN "Summer"
    ELSE "Fall"

\* lines 394-399
season_of(m) ==
    IF m \in {12, 1, 2} THEN "Winter"
    ELSE IF m \in {3, 4, 5} THEN "Spring"
    ELSE IF m \in {6, 7, 8} THEN "Summer"
    ELSE "Fall"

\* line 393: pd.to_datetime(WEEK_START_DATE).dt.month
month_of(week) == WeekDate(week).month

\* lines 392-399: the copy of the filtered rows with MONTH and SEASON
with_season(df) ==
    { [ WEEK_START_DATE |-> row.WEEK_START_DATE, REGION |-> row.REGION,
        PRODUCT |-> row.PRODUCT, CUSTOMER_SEGMENT |-> row.CUSTOMER_SEGMENT,
        METHOD |-> row.METHOD, FORECAST_DEMAND |-> row.FORECAST_DEMAND,
        MONTH |-> month_of(row.WEEK_START_DATE),
        SEASON |-> season_of(month_of(row.WEEK_START_DATE)) ] : row \in df }

\* the weeks whose season is looked up: the weeks of the history and of
\* the 52-week forecasts
SeasonArgs ==
    { FnArgs("season", w, REGIONS[1], PRODUCTS[1], 0, 0, 0, 0) :
        w \in 0..(WEEKS + 51) }

SeasonInit ==
    /\ fn \in SeasonArgs
    /\ GeneratorIdle
    /\ NoRun
    /\ NoReport

\* lines 393-399 for one row
ApplySeason ==
    /\ fn.name = "season" /\ ~fn.done
    /\ fn' = [fn EXCEPT !.done = TRUE, !.value = month_of(fn.week),
                        !.season = season_of(month_of(fn.week))]
    /\ UNCHANGED << genvars, runvars, dashvars >>

SeasonNext == ApplySeason

SeasonSpec == SeasonInit /\ [][SeasonNext]_vars

\* line 402: groupby(['SEASON', 'METHOD']).mean(), kept as sum and count
seasonal_by_method(df) ==
    { [ SEASON |-> k[1], METHOD |-> k[2],
        SUM |-> SumForecast({ row \in df : /\ row.SEASON = k[1]
                                           /\ row.METHOD = k[2] }),
        COUNT |-> Cardinality({ row \in df : /\ row.SEASON = k[1]
                                             /\ row.METHOD = k[2] }) ] :
        k \in { << row.SEASON, row.METHOD >> : row \in df } }

(* The accuracy view, lines 477-585 *)

\* sort_values('WEEK_START_DATE') followed by unique(): the distinct weeks
\* in ascending order
RECURSIVE sorted_unique(_)
sorted_unique(weeks) ==
    IF weeks = {} THEN << >>
    ELSE LET first == CHOOSE w \in weeks : \A v \in weeks : w <= v
         IN  << first >> \o sorted_unique(weeks \ {first})

weeks_of(df) == { row.WEEK_START_DATE : row \in df }

\* line 484: int(total_weeks * 0.2); the float product of an integer below
\* 100000 and 0.2 truncates to the integer quotient by 5
holdout_weeks_of(total_weeks) == total_weeks \div 5

\* Python's seq[-k] for k >= 0: -0 is 0, the first element; the index is
\* out of range when the sequence is empty or shorter than k
index_from_end_in_range(seq, k) ==
    IF k = 0 THEN Len(seq) > 0 ELSE k <= Len(seq)

index_from_end(seq, k) ==
    IF k = 0 THEN seq[1] ELSE seq[Len(seq) - k + 1]

\* lines 482-488 and 505: the holdout window of the historical data
holdout_of(df) ==
    LET weeks == sorted_unique(weeks_of(df))
        total_weeks == Len(weeks)
        holdout_weeks == holdout_weeks_of(total_weeks)
    IN  IF ~index_from_end_in_range(weeks, holdout_weeks)
        THEN [ error |-> TRUE, total_weeks |-> total_weeks,
               holdout_weeks |-> holdout_weeks, holdout_start_date |-> 0,
               df_holdout |-> {} ]
        ELSE LET start == index_from_end(weeks, holdout_weeks)
             IN  [ error |-> FALSE, total_weeks |-> total_weeks,
                   holdout_weeks |-> holdout_weeks,
                   holdout_start_date |-> start,
                   df_holdout |->
                       { row \in df : row.WEEK_START_DATE >= start } ]

\* lines 493-503: MAE and RMSE in tenths of a unit, R2 in hundredths
metrics_data ==
    << [ Method |-> "Cortex_ML", MAE |-> 523, RMSE |-> 685, R2 |-> 87 ],
       [ Method |-> "XGBoost", MAE |-> 458, RMSE |-> 621, R2 |-> 91 ],
       [ Method |-> "Snowpark_ML", MAE |-> 482, RMSE |-> 653, R2 |-> 89 ] >>

\* mutant of best_method_of: the method with the lowest R2
best_method_of_lowest(metrics) ==
    LET best == CHOOSE i \in 1..Len(metrics) :
                    /\ \A j \in 1..Len(metrics) : metrics[j].R2 >= metrics[i].R2
                    /\ \A j \in 1..(i - 1) : metrics[j].R2 > metrics[i].R2
    IN  metrics[best].Method

\* lines 577-578: idxmax() is the first row with the highest R2
best_method_of(metrics) ==
    LET best == CHOOSE i \in 1..Len(metrics) :
                    /\ \A j \in 1..Len(metrics) : metrics[j].R2 <= metrics[i].R2
                    /\ \A j \in 1..(i - 1) : metrics[j].R2 < metrics[i].R2
    IN  metrics[best].Method

(* The overlay, lines 633-656 *)

\* Python's seq[-n:] and seq[:n] for n > 0
slice_last(seq, n) == SubSeq(seq, Max(1, Len(seq) - n + 1), Len(seq))
slice_first(seq, n) == SubSeq(seq, 1, Min(n, Len(seq)))

Range(seq) == { seq[i] : i \in 1..Len(seq) }

\* lines 638-642
filter_historical(df, regions, products, segments) ==
    { row \in df : /\ row.REGION \in regions
                   /\ row.PRODUCT \in products
                   /\ row.CUSTOMER_SEGMENT \in segments }

\* mutant of recent_weeks_of: the last 30 weeks and one more
recent_weeks_of_one_more(df) ==
    Range(slice_last(sorted_unique(weeks_of(df)), RECENT_WEEKS + 1))

\* line 644: unique()[-30:] of the sorted, filtered history
recent_weeks_of(df) ==
    Range(slice_last(sorted_unique(weeks_of(df)), RECENT_WEEKS))

\* line 654: sorted(unique())[:30]
forecast_weeks_of(df) ==
    Range(slice_first(sorted_unique(weeks_of(df)), FIRST_WEEKS))

\* lines 645-648: the history of the recent weeks, summed by week
historical_by_week(df) ==
    LET recent == recent_weeks_of(df)
        df_hist_recent == { row \in df : row.WEEK_START_DATE \in recent }
    IN  { [ WEEK_START_DATE |-> w,
            DEMAND |-> SumDemand({ row \in df_hist_recent :
                                     row.WEEK_START_DATE = w }) ] :
            w \in weeks_of(df_hist_recent) }

\* lines 653-656
forecast_by_week(df) ==
    LET first == forecast_weeks_of(df)
    IN  weekly_by_method({ row \in df : row.WEEK_START_DATE \in first })

(* One script run, lines 84-1501 *)

\* line 1500: the number of records the footer states
FOOTER_RECORDS == 22464

\* nothing rendered yet
NoView == [rendered |-> FALSE]

\* what the script renders from the loaded data sets and the widget state
render(df_forecasts, df_historical, sel) ==
    LET regions == selected_regions(sel, df_forecasts)
        products == selected_products(sel, df_forecasts)
        segments == selected_segments(sel, df_forecasts)
        methods == selected_methods(sel)
        df_filtered == filter_forecasts(df_forecasts, regions, products,
                                        segments, methods)
        stopped == is_empty(df_filtered)
        key_error == ~stopped /\ pivot_key_error(df_filtered, methods)
        holdout == holdout_of(df_historical)
        index_error == ~stopped /\ ~key_error /\ holdout.error
        tabs == IF stopped THEN {}
                ELSE IF key_error THEN {1, 2}
                ELSE IF index_error THEN {1, 2, 3, 4}
                ELSE TABS
    IN  [ rendered |-> TRUE,
          regions |-> regions, products |-> products,
          segments |-> segments, methods |-> methods,
          region_options |-> region_options(df_forecasts),
          product_options |-> product_options(df_forecasts),
          segment_options |-> segment_options(df_forecasts),
          df_filtered |-> df_filtered,
          warning |-> stopped,
          stopped |-> stopped,
          error |-> IF key_error THEN "KeyError"
                    ELSE IF index_error THEN "IndexError" ELSE "none",
          tabs |-> tabs,
          df_weekly |-> IF 1 \in tabs THEN weekly_by_method(df_filtered)
                        ELSE {},
          df_regional |-> IF 2 \in tabs THEN regional_by_method(df_filtered)
                          ELSE {},
          df_product |-> IF ~stopped THEN product_by_method(df_filtered)
                         ELSE {},
          df_product_pivot |->
              IF 3 \in tabs
              THEN product_pivot(product_by_method(df_filtered), methods)
              ELSE NoPivot,
          df_seasonal |-> IF 4 \in tabs THEN with_season(df_filtered)
                          ELSE {},
          df_seasonal_agg |->
              IF 4 \in tabs THEN seasonal_by_method(with_season(df_filtered))
              ELSE {},
          df_metrics |-> IF 5 \in tabs THEN metrics_data ELSE << >>,
          best_method |-> IF 5 \in tabs THEN best_method_of(metrics_data)
                          ELSE "none",
          holdout |-> IF 5 \in tabs THEN holdout
                      ELSE [error |-> TRUE],
          df_hist_agg |->
              IF 6 \in tabs
              THEN historical_by_week(
                       filter_historical(df_historical, regions, products,
                                         segments))
              ELSE {},
          df_forecast_agg |-> IF 6 \in tabs THEN forecast_by_week(df_filtered)
                              ELSE {},
          footer_records |-> IF 7 \in tabs THEN FOOTER_RECORDS ELSE 0 ]

(* The viewers *)

\* mutant of seasonal_target: the columns are added to the cached data set
seasonal_target_cached == "cache"

\* the object the seasonal view adds its MONTH and SEASON columns to (lines
\* 393-394): df_seasonal, which line 392 makes a copy of df_filtered, itself
\* a copy (line 145) of rows of the loaded data set
seasonal_target == "df_seasonal"

\* the cached forecasts after the views of a script run
forecasts_after_views(entry, tabs) ==
    IF seasonal_target = "cache" /\ 4 \in tabs
    THEN [entry EXCEPT !.data = with_season(entry.data)]
    ELSE entry

\* a viewer has opened the page: the first script run is about to start
NewSession ==
    [ pc |-> "load_forecasts", sel |-> NoSelection, df_forecasts |-> {},
      df_historical |-> {}, forecasts_age |-> 0, historical_age |-> 0 ]

\* line 81: df_forecasts = load_all_forecasts()
LoadForecasts(v) ==
    /\ session[v].pc = "load_forecasts"
    /\ LET entry == cache_call(cache.forecasts, forecast_tbl, now)
       IN  /\ cache' = [cache EXCEPT !.forecasts = entry]
           /\ session' = [session EXCEPT
                              ![v].pc = "load_historical",
                              ![v].df_forecasts = entry.data,
                              ![v].forecasts_age = now - entry.fetched_at]
    /\ UNCHANGED << genvars, fn, runvars, forecast_tbl, historical_tbl, now,
                    view >>

\* line 82: df_historical = load_historical_data()
LoadHistorical(v) ==
    /\ session[v].pc = "load_historical"
    /\ LET entry == cache_call(cache.historical, historical_tbl, now)
       IN  /\ cache' = [cache EXCEPT !.historical = entry]
           /\ session' = [session EXCEPT
                              ![v].pc = "views",
                              ![v].df_historical = entry.data,
                              ![v].historical_age = now - entry.fetched_at]
    /\ UNCHANGED << genvars, fn, runvars, forecast_tbl, historical_tbl, now,
                    view >>

\* lines 84-1501: the widgets, the filter, the guard, the tabs, the footer
Views(v) ==
    /\ session[v].pc = "views"
    /\ view' = [view EXCEPT ![v] = render(session[v].df_forecasts,
                                          session[v].df_historical,
                                          session[v].sel)]
    /\ cache' = [cache EXCEPT
                     !.forecasts = forecasts_after_views(@, view'[v].tabs)]
    /\ session' = [session EXCEPT ![v].pc = "idle"]
    /\ UNCHANGED << genvars, fn, runvars, forecast_tbl, historical_tbl, now >>

\* the choices a viewer makes in a multiselect: nothing, everything, or one
\* part of the options
Choices(options, part) == { {}, options, options \cap part }

\* mutant of ChangeFilter: the widget changes and the script does not run
\* again
ChangeFilter_no_rerun(v) ==
    /\ session[v].pc = "idle"
    /\ \E choice \in Choices(method_options, {"XGBoost"}) :
           session' = [session EXCEPT
               ![v].sel.touched = @ \cup {"methods"},
               ![v].sel.methods = choice]
    /\ UNCHANGED << genvars, fn, runvars, forecast_tbl, historical_tbl, now,
                    cache, view >>

\* the viewer changes one of the four multiselects of lines 93-129; the
\* script runs again from the top
ChangeFilter(v) ==
    /\ session[v].pc = "idle"
    /\ \/ \E choice \in Choices(view[v].region_options, {REGIONS[1]}) :
            session' = [session EXCEPT
                ![v].pc = "load_forecasts",
                ![v].sel.touched = @ \cup {"regions"},
                ![v].sel.regions = choice]
       \/ \E choice \in Choices(view[v].product_options, {PRODUCTS[1]}) :
            session' = [session EXCEPT
                ![v].pc = "load_forecasts",
                ![v].sel.touched = @ \cup {"products"},
                ![v].sel.products = choice]
       \/ \E choice \in Choices(view[v].segment_options, {}) :
            session' = [session EXCEPT
                ![v].pc = "load_forecasts",
                ![v].sel.touched = @ \cup {"segments"},
                ![v].sel.segments = choice]
       \/ \E choice \in Choices(method_options, {"XGBoost"})
                            \cup {{"Cortex_ML", "Snowpark_ML"}} :
            session' = [session EXCEPT
                ![v].pc = "load_forecasts",
                ![v].sel.touched = @ \cup {"methods"},
                ![v].sel.methods = choice]
    /\ UNCHANGED << genvars, fn, runvars, forecast_tbl, historical_tbl, now,
                    cache, view >>

\* the viewer asks for a rerun without changing a widget
Refresh(v) ==
    /\ session[v].pc = "idle"
    /\ session' = [session EXCEPT ![v].pc = "load_forecasts"]
    /\ UNCHANGED << genvars, fn, runvars, forecast_tbl, historical_tbl, now,
                    cache, view >>

\* time passes
Tick ==
    /\ now + TickSeconds <= MaxNow
    /\ now' = now + TickSeconds
    /\ UNCHANGED << genvars, fn, runvars, forecast_tbl, historical_tbl, cache,
                    session, view >>

\* the report is deployed on the warehouse: the cache is empty and every
\* viewer has just opened the page
Deployed ==
    /\ now = 0
    /\ cache = [forecasts |-> NoEntry, historical |-> NoEntry]
    /\ session = [v \in Viewers |-> NewSession]
    /\ view = [v \in Viewers |-> NoView]

\* one viewer works with the filters
ReportInit ==
    /\ \E warehouse \in Warehouses :
           /\ forecast_tbl = warehouse[1]
           /\ historical_tbl = warehouse[2]
    /\ Deployed
    /\ GeneratorIdle
    /\ fn = [name |-> "none"]
    /\ NoRun

ReportNext ==
    \E v \in {1} :
        LoadForecasts(v) \/ LoadHistorical(v) \/ Views(v) \/ ChangeFilter(v)

ReportSpec == ReportInit /\ [][ReportNext]_vars

\* several viewers rerun the report while the time passes
CacheInit ==
    /\ forecast_tbl = ForecastWide
    /\ historical_tbl = HistoricalWeeks(11)
    /\ Deployed
    /\ GeneratorIdle
    /\ fn = [name |-> "none"]
    /\ NoRun

CacheNext ==
    \/ Tick
    \/ \E v \in Viewers :
           LoadForecasts(v) \/ LoadHistorical(v) \/ Views(v) \/ Refresh(v)

CacheSpec == CacheInit /\ [][CacheNext]_vars

----------------------------------------------------------------------------
(* Properties *)

\* a < b in the lexicographic order of two sequences of numbers
SeqLess(a, b) ==
    \E i \in 1..Min(Len(a), Len(b)) :
        /\ a[i] < b[i]
        /\ \A j \in 1..(i - 1) : a[j] = b[j]

\* the key of a row as one sequence of numbers: the characters of the date,
\* then the places of region, product and segment in their lists
OrderKey(row) ==
    row.WEEK_START_DATE \o << IndexIn(REGIONS, row.REGION),
                              IndexIn(PRODUCTS, row.PRODUCT),
                              IndexIn(SEGMENTS, row.CUSTOMER_SEGMENT) >>

KeysUnique ==
    Cardinality({ KeyOf(records[i]) : i \in 1..Len(records) }) = Len(records)

\* from one evaluated cell to the next, the key grows
KeyGrows ==
    (last.valid /\ last'.valid /\ last' # last)
        => SeqLess(OrderKey(last.row), OrderKey(last'.row))

\* C1: no two emitted rows share the key (week_start_date, region, product,
\* customer_segment).  The rows kept in `records' have pairwise different
\* keys, and over the whole run the keys of the candidate cells, emitted or
\* not, come in strictly growing order, so that no key comes twice.
C1_UniqueKeys == [](KeysUnique) /\ [][KeyGrows]_vars

C1_Witness ==
    /\ pc = "done"
    /\ Len(records) >= 40
    /\ n_records < n_cells
    /\ n_records > Len(records)

\* C2: a cell with positive segment demand is always emitted; a cell with
\* zero demand is emitted exactly when its draw exceeds 0.7; only cells
\* with zero demand are missing.  An emitted cell is the last row of the
\* list, a dropped one is not in it.
C2_Retention ==
    last.valid =>
        /\ (last.segment_demand > 0 => last.kept /\ ~last.drew)
        /\ (last.segment_demand = 0 => (last.kept <=> last.draw > 700))
        /\ (~last.kept => last.segment_demand = 0 /\ last.drew)
        /\ (Recorded(last.week, IndexIn(REGIONS, last.region)) =>
              (last.kept <=> /\ Len(records) > 0
                              /\ records[Len(records)] = last.row))
        /\ n_records <= n_cells

C2_Witness ==
    /\ last.valid
    /\ last.segment_demand = 0
    /\ ~last.kept
    /\ last.draw <= 700
    /\ \E i \in 1..Len(records) : records[i].DEMAND_UNITS = 0

\* the place of the generator in its run: the number of steps taken
StepsPerProduct == Len(SEGMENTS) + 2
StepsPerRegion == Len(PRODUCTS) * StepsPerProduct + 2
StepsPerWeek == Len(REGIONS) * StepsPerRegion + 2

StepsTaken ==
    CASE pc = "start" -> 0
      [] pc = "week" -> 1 + week_num * StepsPerWeek
      [] pc = "region" -> 2 + week_num * StepsPerWeek
                            + (ri - 1) * StepsPerRegion
      [] pc = "product" -> 3 + week_num * StepsPerWeek
                             + (ri - 1) * StepsPerRegion
                             + (pi - 1) * StepsPerProduct
      [] pc = "segment" -> 4 + week_num * StepsPerWeek
                             + (ri - 1) * StepsPerRegion
                             + (pi - 1) * StepsPerProduct + (si - 1)
      [] pc = "done" -> 2 + 156 * StepsPerWeek

\* the place of a cell in the order week, region, product, segment
CellNumber(c) ==
    ((c.week * 8 + (IndexIn(REGIONS, c.region) - 1)) * 6
        + (IndexIn(PRODUCTS, c.product) - 1)) * 3
    + (IndexIn(SEGMENTS, c.segment) - 1)

\* C3: a run terminates after evaluating exactly 156 x 8 x 6 x 3 = 22,464
\* cells, each combination once; at most 22,464 rows are emitted.  Until
\* the run is done a step can be taken, and every step that can be taken
\* brings the run one step nearer to its end (the number of steps left is
\* a natural number that falls by one, so the run ends); the k-th cell
\* evaluated is the k-th combination in the order of the loops, with its
\* week in 0..155, and at the end 22,464 cells have been evaluated.
C3_Terminates ==
    /\ pc # "done" => ENABLED Next
    /\ ~ENABLED (Next /\ StepsTaken' # StepsTaken + 1)
    /\ StepsTaken <= 2 + 156 * StepsPerWeek
    /\ last.valid => /\ CellNumber(last) = n_cells - 1
                     /\ last.week \in 0..155
    /\ n_records <= n_cells /\ n_cells <= 22464
    /\ pc = "done" => n_cells = 22464

C3_Witness == pc = "done" /\ n_cells = 22464 /\ week_num = 156

\* C4: the revenue of an emitted row is its demand times the unit price of
\* its product, times 0.92 for B2G and 0.95 for B2B when the demand is
\* positive, and undiscounted for B2C (amounts in cents); a row with demand
\* 0 has revenue 0.
C4_Revenue ==
    (last.valid /\ last.kept) =>
        LET row   == last.row
            units == row.DEMAND_UNITS
            price == PRODUCT_PRICES[row.PRODUCT]
        IN  /\ units = last.segment_demand
            /\ units = 0 => row.REVENUE = 0
            /\ row.CUSTOMER_SEGMENT = "B2C" => row.REVENUE = units * price * 100
            /\ (row.CUSTOMER_SEGMENT = "B2G" /\ units > 0)
                 => row.REVENUE = units * price * 92
            /\ (row.CUSTOMER_SEGMENT = "B2B" /\ units > 0)
                 => row.REVENUE = units * price * 95

C4_Witness ==
    /\ last.valid /\ last.kept
    /\ last.row.CUSTOMER_SEGMENT = "B2G"
    /\ last.row.DEMAND_UNITS > 0
    /\ last.row.REVENUE = last.row.DEMAND_UNITS * PRODUCT_PRICES[last.row.PRODUCT] * 92
    /\ \E i \in 1..Len(records) :
          records[i].DEMAND_UNITS = 0 /\ records[i].REVENUE = 0

\* C5: in every emitted row the demand is a non-negative integer and the
\* revenue is non-negative and at most demand x unit price (in cents).
C5_RevenueBounds ==
    (last.valid /\ last.kept) =>
        /\ last.row.DEMAND_UNITS \in Nat
        /\ last.row.REVENUE >= 0
        /\ last.row.REVENUE
             <= last.row.DEMAND_UNITS * PRODUCT_PRICES[last.row.PRODUCT] * 100

C5_Witness ==
    /\ last.valid /\ last.kept
    /\ last.row.CUSTOMER_SEGMENT = "B2B"
    /\ last.row.DEMAND_UNITS > 0
    /\ last.row.REVENUE > 0
    /\ last.row.REVENUE
         < last.row.DEMAND_UNITS * PRODUCT_PRICES[last.row.PRODUCT] * 100

\* the product of the base demand and the six multipliers for the arguments
\* of fn, thousandths
FnProduct ==
    demand_product(generate_base_demand(fn.product), REGION_FACTORS[fn.region],
                   calculate_seasonality_factor(fn.week, fn.product),
                   temp_factor(fn.product, fn.temp),
                   housing_factor(fn.product, fn.housing),
                   economic_factor(fn.economic), growth_factor(fn.week))

\* C6: the total demand of a cell is the product of the base demand and the
\* six multipliers times the noise, truncated to an integer and floored at
\* 0: it is the whole part of that number when the number is at least 1,
\* and 0 otherwise; it is never negative, whatever the noise and the
\* covariates.
C6_TotalDemand ==
    (fn.name = "demand" /\ fn.done) =>
        LET x == FxMul(FnProduct, Normal(1000, 150, fn.z))
        IN  /\ fn.value >= 0
            /\ x < 1000 => fn.value = 0
            /\ x >= 1000 => /\ fn.value * 1000 <= x
                            /\ x < (fn.value + 1) * 1000

C6_Witness ==
    /\ fn.name = "demand" /\ fn.done
    /\ FnProduct > 0
    /\ Normal(1000, 150, fn.z) < 0
    /\ fn.value = 0

\* C7: for each of the 6 products the three segment-mix fractions sum to
\* 1.0 (100 hundredths) and each lies strictly between 0 and 1; the split
\* of an evaluated cell gives its segment no more than that fraction of the
\* total demand.
C7_SegmentMix ==
    /\ last.valid =>
          last.segment_demand * 100
            <= last.total * SEGMENT_MIX[last.product][last.segment]
    /\ Len(PRODUCTS) = 6
    /\ \A p \in ProductSet :
          /\ SEGMENT_MIX[p].B2B + SEGMENT_MIX[p].B2G + SEGMENT_MIX[p].B2C = 100
          /\ \A i \in 1..Len(SEGMENTS) :
                0 < SEGMENT_MIX[p][SEGMENTS[i]] /\ SEGMENT_MIX[p][SEGMENTS[i]] < 100

C7_Witness ==
    /\ last.valid
    /\ last.product = "Maintenance_Contract"
    /\ last.segment = "B2C"
    /\ last.segment_demand > 0
    /\ last.segment_demand * 100 <= last.total * 25

\* C8: for every week and every noise the economic index lies in [50, 100]
\* and the economic factor in [0.7, 1.3].
C8_EconomicRange ==
    (fn.name = "economic" /\ fn.done) =>
        /\ 50000 <= fn.value /\ fn.value <= 100000
        /\ 700 <= fn.factor /\ fn.factor <= 1300

C8_Witness ==
    /\ fn.name = "economic" /\ fn.done
    /\ 70000 + (fn.week * 15000) \div 156 + Normal(0, 5000, fn.z) < 50000
    /\ fn.value = 50000
    /\ fn.factor = 1000

\* C9: housing starts is never negative, for every week, region and noise.
C9_HousingNonNegative ==
    (fn.name = "housing" /\ fn.done) => fn.value >= 0

\* C10: with every other factor held fixed and the noise at 1.0, the total
\* demand does not fall as the week goes from 0 to 155.
C10_GrowthMonotone ==
    (fn.name = "growth" /\ fn.done) => fn.prev <= fn.value

C10_Witness ==
    /\ fn.name = "growth" /\ fn.done
    /\ fn.week = 155
    /\ fn.prev <= fn.value
    /\ fn.value > GrowthDemand(0)

\* a is an initial part of b
IsPrefix(a, b) ==
    /\ Len(a) <= Len(b)
    /\ \A i \in 1..Len(a) : a[i] = b[i]

C12_PureFunction ==
    (how = "reinvoke") =>
        /\ csv.written
        /\ IsPrefix(records, csv.rows)
        /\ n_records <= csv.count
        /\ (pc = "done" => Table = csv)

\* the script run of viewer v has finished: the view shows the data sets
\* and the widget state of the session
Rendered(v) == session[v].pc = "idle" /\ view[v].rendered

\* the rows of the loaded forecasts that pass the four selections shown
Matching(v) ==
    { row \in session[v].df_forecasts :
        /\ row.REGION \in view[v].regions
        /\ row.PRODUCT \in view[v].products
        /\ row.CUSTOMER_SEGMENT \in view[v].segments
        /\ row.METHOD \in view[v].methods }

\* one of the four selections is empty
SomeSelectionEmpty(v) ==
    \/ view[v].regions = {}
    \/ view[v].products = {}
    \/ view[v].segments = {}
    \/ view[v].methods = {}

\* C13: whenever no forecast row passes the filters, and in particular
\* whenever one of the four selections is empty, the script run shows the
\* warning, stops, renders none of the seven views and raises no exception
C13_EmptyGuard ==
    \A v \in Viewers :
        (Rendered(v) /\ (Matching(v) = {} \/ SomeSelectionEmpty(v))) =>
            /\ view[v].warning
            /\ view[v].stopped
            /\ view[v].tabs = {}
            /\ view[v].error = "none"
            /\ view[v].df_weekly = {} /\ view[v].df_regional = {}
            /\ view[v].df_product = {} /\ view[v].df_seasonal_agg = {}
            /\ view[v].df_metrics = << >> /\ view[v].df_hist_agg = {}
            /\ view[v].df_forecast_agg = {} /\ view[v].footer_records = 0

\* the warning is shown although every selection is non-empty and the
\* forecasts are not: no row passes all four filters
C13_Witness ==
    \E v \in Viewers :
        /\ Rendered(v)
        /\ session[v].df_forecasts # {}
        /\ ~SomeSelectionEmpty(v)
        /\ Matching(v) = {}
        /\ view[v].warning

\* a row of the seasonal view without the two columns the view adds
WithoutSeason(row) ==
    ForecastRow(row.WEEK_START_DATE, row.REGION, row.PRODUCT,
                row.CUSTOMER_SEGMENT, row.METHOD, row.FORECAST_DEMAND)

\* the first FIRST_WEEKS distinct weeks of a set of rows
EarliestWeeks(rows) ==
    { w \in weeks_of(rows) :
        Cardinality({ u \in weeks_of(rows) : u < w }) < FIRST_WEEKS }

\* C14: the rows behind the weekly, regional, product, seasonal and overlay
\* forecast aggregates are exactly the forecast rows whose region, product,
\* segment and method are all in the selected sets: each aggregate has the
\* groups of these rows and adds up to their total
C14_FilterExact ==
    \A v \in Viewers :
        (Rendered(v) /\ ~view[v].stopped) =>
            /\ view[v].df_filtered = Matching(v)
            /\ { << a.WEEK_START_DATE, a.METHOD >> : a \in view[v].df_weekly }
                   = { << r.WEEK_START_DATE, r.METHOD >> : r \in Matching(v) }
            /\ SumForecast(view[v].df_weekly) = SumForecast(Matching(v))
            /\ { << a.REGION, a.METHOD >> : a \in view[v].df_regional }
                   = { << r.REGION, r.METHOD >> : r \in Matching(v) }
            /\ SumForecast(view[v].df_regional) = SumForecast(Matching(v))
            /\ { << a.PRODUCT, a.METHOD >> : a \in view[v].df_product }
                   = { << r.PRODUCT, r.METHOD >> : r \in Matching(v) }
            /\ SumForecast(view[v].df_product) = SumForecast(Matching(v))
            /\ (4 \in view[v].tabs) =>
                   { WithoutSeason(r) : r \in view[v].df_seasonal }
                       = Matching(v)
            /\ (6 \in view[v].tabs) =>
                   SumForecast(view[v].df_forecast_agg)
                       = SumForecast({ r \in Matching(v) :
                             r.WEEK_START_DATE \in EarliestWeeks(Matching(v)) })

\* all seven tabs are rendered from a working set that each of the four
\* filters has narrowed
C14_Witness ==
    \E v \in Viewers :
        /\ Rendered(v)
        /\ view[v].tabs = TABS
        /\ Matching(v) # {}
        /\ \E r \in session[v].df_forecasts : r.REGION \notin view[v].regions
        /\ \E r \in session[v].df_forecasts : r.PRODUCT \notin view[v].products
        /\ \E r \in session[v].df_forecasts : r.METHOD \notin view[v].methods

\* C15: the seasonal view maps the months 12, 1, 2 to Winter, 3 to 5 to
\* Spring, 6 to 8 to Summer and 9 to 11 to Fall; no month is left without
\* a season and every season has three months
C15_SeasonMapping ==
    (fn.name = "season" /\ fn.done) =>
        /\ fn.value \in 1..12
        /\ fn.season \in {"Winter", "Spring", "Summer", "Fall"}
        /\ fn.season = "Winter" <=> fn.value \in {12, 1, 2}
        /\ fn.season = "Spring" <=> fn.value \in {3, 4, 5}
        /\ fn.season = "Summer" <=> fn.value \in {6, 7, 8}
        /\ fn.season = "Fall" <=> fn.value \in {9, 10, 11}
        /\ \A name \in {"Winter", "Spring", "Summer", "Fall"} :
               Cardinality({ m \in 1..12 : season_of(m) = name }) = 3

\* a forecast week of November has been given its season
C15_Witness ==
    /\ fn.name = "season" /\ fn.done
    /\ fn.week >= WEEKS
    /\ fn.value = 11
    /\ fn.season = "Fall"

\* the n latest weeks of a set of weeks
LatestWeeks(weeks, n) ==
    { w \in weeks : Cardinality({ u \in weeks : u > w }) < n }

\* C16: the holdout window is the last floor(0.2 x distinct weeks) weeks of
\* the history: the start date is the earliest of these weeks, and the rows
\* at or after the start date cover exactly that many distinct weeks
C16_HoldoutWindow ==
    \A v \in Viewers :
        (Rendered(v) /\ 5 \in view[v].tabs) =>
            LET weeks == weeks_of(session[v].df_historical)
                holdout == view[v].holdout
            IN  /\ holdout.holdout_weeks = (2 * Cardinality(weeks)) \div 10
                /\ holdout.df_holdout =
                       { row \in session[v].df_historical :
                           row.WEEK_START_DATE >= holdout.holdout_start_date }
                /\ weeks_of(holdout.df_holdout)
                       = LatestWeeks(weeks, holdout.holdout_weeks)
                /\ Cardinality(weeks_of(holdout.df_holdout))
                       = holdout.holdout_weeks

\* C17: the accuracy view is static: whatever the filters select and the
\* tables hold, it shows the same MAE, RMSE and R2 for each method (52.3,
\* 68.5, 0.87 for Cortex ML; 45.8, 62.1, 0.91 for XGBoost; 48.2, 65.3, 0.89
\* for Snowpark ML) and names the method with the highest R2, XGBoost, as
\* the best
C17_StaticMetrics ==
    \A v \in Viewers :
        (Rendered(v) /\ 5 \in view[v].tabs) =>
            /\ view[v].df_metrics =
                   << [ Method |-> "Cortex_ML", MAE |-> 523, RMSE |-> 685,
                        R2 |-> 87 ],
                      [ Method |-> "XGBoost", MAE |-> 458, RMSE |-> 621,
                        R2 |-> 91 ],
                      [ Method |-> "Snowpark_ML", MAE |-> 482, RMSE |-> 653,
                        R2 |-> 89 ] >>
            /\ view[v].best_method = "XGBoost"
            /\ \A i \in 1..Len(view[v].df_metrics) :
                   view[v].df_metrics[i].R2 <= 91

\* the accuracy view is rendered while XGBoost is not among the selected
\* methods and the filters have narrowed the forecasts
C17_Witness ==
    \E v \in Viewers :
        /\ Rendered(v)
        /\ 5 \in view[v].tabs
        /\ "XGBoost" \notin view[v].methods
        /\ view[v].df_filtered # session[v].df_forecasts
        /\ view[v].best_method = "XGBoost"

\* the historical rows viewer v has loaded that pass the region, product
\* and segment selections shown
MatchingHistory(v) ==
    { row \in session[v].df_historical :
        /\ row.REGION \in view[v].regions
        /\ row.PRODUCT \in view[v].products
        /\ row.CUSTOMER_SEGMENT \in view[v].segments }

\* C18: in the overlay the historical series is the sum by week over the
\* last 30 distinct weeks of the historical rows that pass the region,
\* product and segment filters (all of them when there are fewer), the
\* forecast series of a selected method is its sum by week over the first 30
\* distinct weeks of the filtered forecasts, and no series has more than 30
\* points
C18_Overlay ==
    \A v \in Viewers :
        (Rendered(v) /\ 6 \in view[v].tabs) =>
            LET hist == MatchingHistory(v)
                recent == LatestWeeks(weeks_of(hist), RECENT_WEEKS)
                first == EarliestWeeks(Matching(v))
                series(m) == { a \in view[v].df_forecast_agg : a.METHOD = m }
            IN  /\ view[v].df_hist_agg =
                       { [ WEEK_START_DATE |-> w,
                           DEMAND |-> SumDemand({ row \in hist :
                                                    row.WEEK_START_DATE = w }) ] :
                           w \in recent }
                /\ Cardinality(view[v].df_hist_agg)
                       = Min(30, Cardinality(weeks_of(hist)))
                /\ \A a \in view[v].df_forecast_agg :
                       a.METHOD \in view[v].methods
                /\ \A m \in view[v].methods :
                       /\ series(m) =
                              { [ WEEK_START_DATE |-> w, METHOD |-> m,
                                  FORECAST_DEMAND |->
                                      SumForecast({ row \in Matching(v) :
                                          /\ row.WEEK_START_DATE = w
                                          /\ row.METHOD = m }) ] :
                                  w \in { u \in first :
                                            \E row \in Matching(v) :
                                                /\ row.WEEK_START_DATE = u
                                                /\ row.METHOD = m } }
                       /\ Cardinality(series(m)) <= 30

\* both series are cut: more than 30 weeks of history and of forecasts pass
\* the filters, and 30 points of each are shown
C18_Witness ==
    \E v \in Viewers :
        /\ Rendered(v)
        /\ 6 \in view[v].tabs
        /\ Cardinality(weeks_of(MatchingHistory(v))) > 30
        /\ Cardinality(weeks_of(Matching(v))) > 30
        /\ Cardinality(view[v].df_hist_agg) = 30
        /\ \E m \in view[v].methods :
               Cardinality({ a \in view[v].df_forecast_agg : a.METHOD = m }) = 30

\* the data set of a cache entry is the table it was read from
CacheFaithful ==
    /\ cache.forecasts.valid => cache.forecasts.data = forecast_tbl
    /\ cache.historical.valid => cache.historical.data = historical_tbl

\* a step of the report leaves the two tables and the generator's output
\* file as they are, and the views of a script run leave the cache as it is
StepReadOnly ==
    /\ forecast_tbl' = forecast_tbl
    /\ historical_tbl' = historical_tbl
    /\ csv' = csv
    /\ \A v \in Viewers :
           (session[v].pc = "views" /\ session'[v].pc = "idle") =>
               cache' = cache

\* C19: the report is read-only: no sequence of script runs and filter
\* changes modifies the forecast table, the historical table or the
\* generator's output file, and the cached data sets are left unchanged by
\* the computation of every view
C19_ReadOnly == [](CacheFaithful) /\ [][StepReadOnly]_vars

\* after a change of the filters all tabs, the seasonal one among them,
\* have been rendered from the cached data sets
C19_Witness ==
    \E v \in Viewers :
        /\ Rendered(v)
        /\ session[v].sel.touched # {}
        /\ view[v].tabs = TABS
        /\ view[v].df_seasonal # {}
        /\ cache.forecasts.valid /\ cache.forecasts.data # {}
        /\ cache.historical.valid /\ cache.historical.data # {}

\* the data sets a script run was given were, when it was given them,
\* fetched at most TTL seconds earlier
AgesBounded ==
    \A v \in Viewers :
        /\ session[v].forecasts_age <= TTL
        /\ session[v].historical_age <= TTL

\* a load that finds an entry older than TTL does not serve it: it reads
\* the table again
StaleRefetched ==
    \A v \in Viewers :
        /\ ( /\ session[v].pc = "load_forecasts"
              /\ session'[v].pc = "load_historical"
              /\ cache.forecasts.valid
              /\ now - cache.forecasts.fetched_at > TTL )
            => /\ cache'.forecasts.fetched_at = now
               /\ session'[v].forecasts_age = 0
               /\ session'[v].df_forecasts = forecast_tbl
        /\ ( /\ session[v].pc = "load_historical"
              /\ session'[v].pc = "views"
              /\ cache.historical.valid
              /\ now - cache.historical.fetched_at > TTL )
            => /\ cache'.historical.fetched_at = now
               /\ session'[v].historical_age = 0
               /\ session'[v].df_historical = historical_tbl

\* C20: the staleness of the cache is bounded by the TTL: the data set
\* served to any script run, of any of the concurrent viewers, was fetched
\* at most TTL (600 s) earlier, and an entry older than the TTL is never
\* served but fetched again
C20_CacheTTL == [](AgesBounded) /\ [][StaleRefetched]_vars

\* one viewer has been served forecasts that were fetched earlier, after
\* the entry had expired once and had been fetched again
C20_Witness ==
    \E v \in Viewers :
        /\ session[v].pc = "idle"
        /\ session[v].forecasts_age > 0
        /\ cache.forecasts.valid
        /\ cache.forecasts.fetched_at >= TTL

\* the forecast rows that pass the four widgets as they stand now
CurrentMatching(v) ==
    filter_forecasts(session[v].df_forecasts,
                     selected_regions(session[v].sel, session[v].df_forecasts),
                     selected_products(session[v].sel, session[v].df_forecasts),
                     selected_segments(session[v].sel, session[v].df_forecasts),
                     selected_methods(session[v].sel))

\* the history rows that pass the three data widgets as they stand now
CurrentHistory(v) ==
    filter_historical(session[v].df_historical,
                      selected_regions(session[v].sel, session[v].df_forecasts),
                      selected_products(session[v].sel, session[v].df_forecasts),
                      selected_segments(session[v].sel, session[v].df_forecasts))

\* every view on the page is the aggregate of the rows of the current
\* selection, and a view that is not on the page shows nothing
ShowsCurrentSelection ==
    \A v \in Viewers :
        Rendered(v) =>
            /\ view[v].df_filtered = CurrentMatching(v)
            /\ view[v].df_weekly =
                   IF 1 \in view[v].tabs
                   THEN weekly_by_method(CurrentMatching(v)) ELSE {}
            /\ view[v].df_regional =
                   IF 2 \in view[v].tabs
                   THEN regional_by_method(CurrentMatching(v)) ELSE {}
            /\ view[v].df_product =
                   IF view[v].tabs # {}
                   THEN product_by_method(CurrentMatching(v)) ELSE {}
            /\ view[v].df_seasonal_agg =
                   IF 4 \in view[v].tabs
                   THEN seasonal_by_method(with_season(CurrentMatching(v)))
                   ELSE {}
            /\ view[v].df_forecast_agg =
                   IF 6 \in view[v].tabs
                   THEN forecast_by_week(CurrentMatching(v)) ELSE {}
            /\ view[v].df_hist_agg =
                   IF 6 \in view[v].tabs
                   THEN historical_by_week(CurrentHistory(v)) ELSE {}

\* a change of a widget starts a script run from the top, and the script
\* run renders the page from the widgets as they stand
ChangeRecomputes ==
    \A v \in Viewers :
        /\ session'[v].sel # session[v].sel =>
               session'[v].pc = "load_forecasts"
        /\ (session[v].pc = "views" /\ session'[v].pc = "idle") =>
               view'[v] = render(session[v].df_forecasts,
                                 session[v].df_historical, session'[v].sel)

\* C21: after any sequence of filter changes every data-driven view shows
\* the aggregates of the rows matching the current selection alone: each
\* filter change triggers a full recomputation, and no earlier selection
\* influences what is displayed
C21_CurrentSelectionOnly ==
    [](ShowsCurrentSelection) /\ [][ChangeRecomputes]_vars

\* after changes of at least two widgets all tabs show a working set that
\* is not the one of the default selection
C21_Witness ==
    \E v \in Viewers :
        /\ Rendered(v)
        /\ Cardinality(session[v].sel.touched) >= 2
        /\ view[v].tabs = TABS
        /\ view[v].df_filtered # {}
        /\ view[v].df_filtered #
               render(session[v].df_forecasts, session[v].df_historical,
                      NoSelection).df_filtered

\* the sum of the forecasts of a product by a method among `rows'
PairSum(rows, product, method) ==
    SumForecast({ r \in rows : r.PRODUCT = product /\ r.METHOD = method })

\* C22: for every non-empty filtered working set the table under the
\* product chart has one row per product and one column per selected
\* method holding the (product, method) sum, an AVG column equal to the
\* mean of the selected methods' columns, and its rows in the order of
\* descending AVG, also when a selected method has no row in the working
\* set
C22_ProductPivot ==
    \A v \in Viewers :
        (Rendered(v) /\ Matching(v) # {}) =>
            LET pivot == view[v].df_product_pivot
                rows == pivot.rows
            IN  /\ view[v].error # "KeyError"
                /\ 3 \in view[v].tabs
                /\ Len(rows) = Cardinality(product_options(Matching(v)))
                /\ { rows[i].PRODUCT : i \in 1..Len(rows) }
                       = product_options(Matching(v))
                /\ pivot.columns = view[v].methods
                /\ \A i \in 1..Len(rows) :
                       /\ \A m \in DOMAIN rows[i].columns :
                              rows[i].columns[m]
                                  = PairSum(Matching(v), rows[i].PRODUCT, m)
                       /\ rows[i].AVG_COUNT
                              = Cardinality(DOMAIN rows[i].columns
                                                \cap view[v].methods)
                       /\ rows[i].AVG_SUM
                              = SumForecast(
                                    { r \in Matching(v) :
                                        r.PRODUCT = rows[i].PRODUCT })
                /\ \A i \in 1..(Len(rows) - 1) :
                       ~avg_above(rows[i + 1], rows[i])

\* C23: the seasonality of Cold_Climate_Heat_Pump and Variable_Gas_Furnace,
\* by week_of_year = week mod 52, is 1.8 in weeks 35..45, 1.5 in weeks
\* 46..51 and 0..10, 1.1 in weeks 11..20 and 0.6 in weeks 21..34; so it is
\* at least 1.5 in every fall and winter week, 0.6 only in summer, and 1.8
\* in week 45, which both the fall and the winter window claim
C23_HeatingSeasonality ==
    ( /\ fn.name = "seasonality" /\ fn.done
      /\ fn.product \in {"Cold_Climate_Heat_Pump", "Variable_Gas_Furnace"} )
    => LET w == fn.week % 52
       IN  /\ fn.week_of_year = w
           /\ w \in 35..45 => fn.seasonality = 1800
           /\ w \in (46..51) \cup (0..10) => fn.seasonality = 1500
           /\ w \in 11..20 => fn.seasonality = 1100
           /\ w \in 21..34 => fn.seasonality = 600
           /\ w \in (35..51) \cup (0..10) => fn.seasonality >= 1500
           /\ fn.seasonality = 600 => w \in 21..34
           /\ w = 45 => fn.seasonality = 1800

\* week 45 of the third year, for the gas furnace
C23_Witness ==
    /\ fn.name = "seasonality" /\ fn.done
    /\ fn.product = "Variable_Gas_Furnace"
    /\ fn.week = 149
    /\ fn.week_of_year = 45
    /\ fn.seasonality = 1800

\* C24: by week_of_year = week mod 52, the two air handlers get 1.3 exactly
\* in weeks 15..24 and 35..44 and 1.0 otherwise, Replacement_Parts 1.7
\* exactly in weeks 48..51 and 0..8 and 1.0 otherwise, Maintenance_Contract
\* 1.4 exactly in weeks 12..21 and 38..47 and 0.9 otherwise; none of the 6
\* configured products reaches the 1.0 default for other products
C24_OtherSeasonality ==
    (fn.name = "seasonality" /\ fn.done)
    => LET w == fn.week % 52
       IN  /\ fn.week_of_year = w
           /\ fn.product \in {"Standard_Air_Handler",
                               "High_Altitude_Air_Handler"} =>
                  /\ fn.branch = "air_handler"
                  /\ fn.seasonality =
                         IF w \in (15..24) \cup (35..44) THEN 1300 ELSE 1000
           /\ fn.product = "Replacement_Parts" =>
                  /\ fn.branch = "parts"
                  /\ fn.seasonality =
                         IF w \in (48..51) \cup (0..8) THEN 1700 ELSE 1000
           /\ fn.product = "Maintenance_Contract" =>
                  /\ fn.branch = "maintenance"
                  /\ fn.seasonality =
                         IF w \in (12..21) \cup (38..47) THEN 1400 ELSE 900
           /\ fn.branch # "default"

\* week 25 of the second year, the first week past the spring window of
\* the air handlers
C24_Witness ==
    /\ fn.name = "seasonality" /\ fn.done
    /\ fn.product = "High_Altitude_Air_Handler"
    /\ fn.week = 77
    /\ fn.week_of_year = 25
    /\ fn.seasonality = 1000
    /\ fn.branch = "air_handler"

\* C25: the temperature factor 1 + (50 - temp)/100 is applied to the two
\* heating products only and is 1.0 for the other four; the housing factor
\* 1 + housing_starts/1000 is applied to every product but
\* Replacement_Parts and Maintenance_Contract, for which it is 1.0; so the
\* demand of these two products depends neither on the temperature nor on
\* the housing starts
C25_FactorApplicability ==
    (fn.name = "factors" /\ fn.done)
    => /\ fn.temp_factor =
              IF fn.product \in {"Cold_Climate_Heat_Pump",
                                 "Variable_Gas_Furnace"}
              THEN 1000 + TruncDiv(50000 - fn.temp, 100)
              ELSE 1000
       /\ fn.housing_factor =
              IF fn.product \in {"Replacement_Parts", "Maintenance_Contract"}
              THEN 1000
              ELSE 1000 + fn.housing
       /\ fn.product \in {"Replacement_Parts", "Maintenance_Contract"} =>
              \A temp \in FN_TEMPS, housing \in FN_HOUSING :
                  fn.demand = cell_total_demand(
                                  fn.week, fn.region, fn.product, temp,
                                  fn.economic, housing,
                                  Normal(1000, 150, fn.z))

\* the demand of Replacement_Parts at the coldest temperature and with
\* many housing starts
C25_Witness ==
    /\ fn.name = "factors" /\ fn.done
    /\ fn.product = "Replacement_Parts"
    /\ fn.temp = -42000
    /\ fn.housing = 265
    /\ fn.temp_factor = 1000
    /\ fn.housing_factor = 1000
    /\ fn.demand > 0

\* C26: for every cell each segment demand is the integer truncation of
\* the total demand times the mix fraction of the segment, and the three
\* segment demands add up to no more than the total demand and to no less
\* than the total demand minus 2.  (The double product of a total and the
\* fraction 0.35 can lie just below the whole number it stands for, and
\* int() then yields that number less one; the other fractions are exact.)
C26_SplitConserves ==
    (fn.name = "split" /\ fn.done)
    => /\ \A i \in 1..Len(SEGMENTS) :
              LET pct == SEGMENT_MIX[fn.product][SEGMENTS[i]]
                  d == fn[SEGMENTS[i]]
              IN  /\ 0 <= d
                  /\ d * 100 <= fn.total * pct
                  /\ fn.total * pct <= (d + 1) * 100
                  /\ pct # 35 => fn.total * pct < (d + 1) * 100
       /\ fn.B2B + fn.B2G + fn.B2C <= fn.total
       /\ fn.total - (fn.B2B + fn.B2G + fn.B2C) <= 2

\* a split that loses 2 units, every segment getting some
C26_Witness ==
    /\ fn.name = "split" /\ fn.done
    /\ fn.total >= 100
    /\ fn.B2B > 0 /\ fn.B2G > 0 /\ fn.B2C > 0
    /\ fn.total - (fn.B2B + fn.B2G + fn.B2C) = 2

\* the rows kept of one week and region carry the same three covariates,
\* and the cell last evaluated, while its region and product are still the
\* current ones, carries the covariates of the region and was split from
\* the total demand of the product
SameCovariates ==
    /\ LET n == Len(records)
       IN  \A i \in 1..n :
               ( /\ records[i].WEEK_START_DATE = records[n].WEEK_START_DATE
                 /\ records[i].REGION = records[n].REGION )
               => /\ records[i].AVG_TEMPERATURE_F
                         = records[n].AVG_TEMPERATURE_F
                  /\ records[i].ECONOMIC_INDEX = records[n].ECONOMIC_INDEX
                  /\ records[i].HOUSING_STARTS = records[n].HOUSING_STARTS
    /\ ( /\ last.valid
         /\ pc \in {"product", "segment"}
         /\ last.week = week_num
         /\ last.region = REGIONS[ri] )
       => /\ last.row.AVG_TEMPERATURE_F = Round1(avg_temp)
          /\ last.row.ECONOMIC_INDEX = Round1(economic_index)
          /\ last.row.HOUSING_STARTS = housing_starts
          /\ (pc = "segment" /\ last.product = PRODUCTS[pi]) =>
                 last.total = total_demand

\* the covariates are drawn on entering a region and the total demand on
\* entering a product: the steps of the product and segment loops leave
\* the covariates, and the steps of the segment loop the total demand, as
\* they are
DrawnOnce ==
    /\ pc \in {"product", "segment"} =>
           /\ avg_temp' = avg_temp
           /\ economic_index' = economic_index
           /\ housing_starts' = housing_starts
    /\ pc = "segment" => total_demand' = total_demand
    /\ (pc = "segment" /\ pc' = "segment") =>
           /\ last'.total = total_demand
           /\ last'.week = week_num
           /\ last'.region = REGIONS[ri]
           /\ last'.product = PRODUCTS[pi]

\* C28: the covariates are drawn once per (week, region): all emitted rows
\* of one week and region carry the same AVG_TEMPERATURE_F, ECONOMIC_INDEX
\* and HOUSING_STARTS, whatever their product and segment, and the three
\* segment rows of one (week, region, product) derive from the same total
\* demand
C28_CovariatesOnce == [](SameCovariates) /\ [][DrawnOnce]_vars

\* rows of two regions are kept: two rows of one region that differ in
\* product agree in the temperature, two rows of different regions do not
C28_Witness ==
    /\ \E i, j \in 1..Len(records) :
           /\ records[i].REGION = records[j].REGION
           /\ records[i].PRODUCT # records[j].PRODUCT
           /\ records[i].CUSTOMER_SEGMENT # records[j].CUSTOMER_SEGMENT
           /\ records[i].AVG_TEMPERATURE_F = records[j].AVG_TEMPERATURE_F
    /\ \E i, j \in 1..Len(records) :
           /\ records[i].REGION # records[j].REGION
           /\ records[i].AVG_TEMPERATURE_F # records[j].AVG_TEMPERATURE_F
    /\ last.valid /\ last.segment = "B2C" /\ last.total > 0

\* the seasons a row is flagged with
FlaggedSeasons(row) ==
    { name \in {"Winter", "Spring", "Summer", "Fall"} :
        \/ name = "Winter" /\ row.IS_WINTER = 1
        \/ name = "Spring" /\ row.IS_SPRING = 1
        \/ name = "Summer" /\ row.IS_SUMMER = 1
        \/ name = "Fall" /\ row.IS_FALL = 1 }

\* C29: in every emitted row exactly one of the flags IS_WINTER, IS_SPRING,
\* IS_SUMMER and IS_FALL is 1, and the flagged season is the one the
\* seasonal view of the report assigns to the month of the row
C29_SeasonFlags ==
    (last.valid /\ last.kept) =>
        /\ last.row.IS_WINTER \in {0, 1} /\ last.row.IS_SPRING \in {0, 1}
        /\ last.row.IS_SUMMER \in {0, 1} /\ last.row.IS_FALL \in {0, 1}
        /\ last.row.IS_WINTER + last.row.IS_SPRING + last.row.IS_SUMMER
               + last.row.IS_FALL = 1
        /\ last.row.MONTH = month_of(last.week)
        /\ FlaggedSeasons(last.row) = { season_of(last.row.MONTH) }

\* a row of March of the first year is emitted, flagged as spring
C29_Witness ==
    /\ last.valid /\ last.kept
    /\ last.row.YEAR = START_YEAR
    /\ last.row.MONTH = 3
    /\ last.row.IS_SPRING = 1
    /\ season_of(last.row.MONTH) = "Spring"

\* what the script would render for viewer v with the methods widget set
\* to `methods' and the other three widgets as they stand
WithMethods(v, methods) ==
    render(session[v].df_forecasts, session[v].df_historical,
           [session[v].sel EXCEPT !.touched = @ \cup {"methods"},
                                  !.methods = methods])

\* C30: the historical series of the overlay does not depend on the method
\* selection: for any two selections with the same regions, products and
\* segments that differ in their methods only and both yield a non-empty
\* forecast working set, the historical weekly totals displayed are the
\* same
C30_HistoryIgnoresMethods ==
    \A v \in Viewers :
        (Rendered(v) /\ view[v].df_filtered # {}) =>
            \A methods \in SUBSET method_options :
                WithMethods(v, methods).df_filtered # {} =>
                    WithMethods(v, methods).df_hist_agg = view[v].df_hist_agg

====
